---------------------------- MODULE Spec2Model ----------------------------
(***************************************************************************)
(* Model of scality_manila_utils/export.py: the Export and ExportTable     *)
(* classes, their /etc/exports (de)serialization and the add_client /      *)
(* remove_client mutations; and of scality_manila_utils/helper.py: the     *)
(* add_export, wipe_export, grant_access, revoke_access and get_export     *)
(* functions behind ensure_environment, as invocations that may overlap;  *)
(* and of scality_manila_utils/utils.py: elevated_privileges, safe_write   *)
(* and fsync_path step by step, with the system calls that may raise.      *)
(*                                                                         *)
(* A Python string is a sequence of one-character strings, so that         *)
(* formatting, padding, splitting and the client pattern are computed      *)
(* character by character.  A dict is a function with a finite domain.     *)
(* A call that may raise returns a record whose field "raised" names the   *)
(* exception ("none" when the call returns normally).                      *)
(***************************************************************************)
EXTENDS Integers, Sequences, FiniteSets, TLC

VARIABLES
    exports,    \* ExportTable.exports: dict export point -> Export
    origin,     \* where the value came from: "empty", "deserialized" (a table),
                \* "constructed" (from values), "input" (lines to parse)
    granted,    \* history: grants added by add_client and not removed since
    call,       \* the last call made on the table, with its arguments
    outcome,    \* "none", or the exception the last call raised
    text,       \* what the last ExportTable.serialize call returned
    content,    \* the list of lines handed to ExportTable.deserialize
    loaded,     \* what the last ExportTable.deserialize returned or raised
    export,     \* an Export instance (None when there is none)
    line,       \* one line in /etc/exports format
    parsed,     \* what the last Export.deserialize returned or raised
    pc,         \* position in the serialize / deserialize scenario
    exports_file,   \* the text of the exports file
    root,           \* the names of the directories under the mounted root
    sighups,        \* the pids SIGHUP was sent to, in order
    environment,    \* existing paths, installed binaries, running processes
    invocation,     \* the invocations of helper functions: position, arguments,
                    \* local variables, what was raised or returned
    privileges,     \* effective uid and gid of the process and the scopes of
                    \* elevated_privileges it is in
    temporary,      \* the temporary files of safe_write in the directory of
                    \* the exports file: invocation -> text
    observed,       \* what a reader of the exports file read last
    visible_to,     \* history: invocation -> the sfused pids that ran when its
                    \* rename made the new exports file visible
    spawned         \* the number of sfused instances started since Init

\* the state of an ExportTable and of the serialization scenarios
table_vars == <<exports, origin, granted, call, outcome, text, content, loaded,
                export, line, parsed, pc>>

\* the state the helper functions work on
helper_vars == <<exports_file, root, sighups, environment, invocation>>

\* the state of the process and of the system around the helper functions
system_vars == <<privileges, temporary, observed, visible_to, spawned>>

vars == <<exports, origin, granted, call, outcome, text, content, loaded,
          export, line, parsed, pc, exports_file, root, sighups, environment,
          invocation, privileges, temporary, observed, visible_to, spawned>>

(***************************************************************************)
(* Bounds of the model.                                                    *)
(***************************************************************************)
MaxClients == 2     \* clients of an Export value drawn as an input
MaxGrants == 2      \* total grants add_client is driven up to
MaxLines == 2       \* lines of a file drawn as an input
MaxPieces == 4      \* pieces a single input line is put together from

(***************************************************************************)
(* Characters.                                                             *)
(***************************************************************************)
\* the characters with the codes 32 to 95
AsciiFrom32 ==
    <<" ", "!", "\"", "#", "$", "%", "&", "'", "(", ")", "*", "+", ",", "-",
      ".", "/", "0", "1", "2", "3", "4", "5", "6", "7", "8", "9", ":", ";",
      "<", "=", ">", "?", "@", "A", "B", "C", "D", "E", "F", "G", "H", "I",
      "J", "K", "L", "M", "N", "O", "P", "Q", "R", "S", "T", "U", "V", "W",
      "X", "Y", "Z", "[", "\\", "]", "^", "_">>

\* the characters with the codes 97 to 126
AsciiFrom97 ==
    <<"a", "b", "c", "d", "e", "f", "g", "h", "i", "j", "k", "l", "m", "n",
      "o", "p", "q", "r", "s", "t", "u", "v", "w", "x", "y", "z", "{", "|",
      "}", "~">>

Characters == {"\t", "\n"} \cup {AsciiFrom32[i] : i \in DOMAIN AsciiFrom32}
                  \cup {AsciiFrom97[i] : i \in DOMAIN AsciiFrom97}

\* ord(c) for the characters the model uses
Ord ==
    [c \in Characters |->
        IF c = "\t" THEN 9
        ELSE IF c = "\n" THEN 10
        ELSE IF \E i \in DOMAIN AsciiFrom32 : AsciiFrom32[i] = c
        THEN 31 + CHOOSE i \in DOMAIN AsciiFrom32 : AsciiFrom32[i] = c
        ELSE 96 + CHOOSE i \in DOMAIN AsciiFrom97 : AsciiFrom97[i] = c]

\* the characters str.strip() and str.split() treat as whitespace
Whitespace == {" ", "\t", "\n"}

\* The character class [a-z0-9*.-/] of CLIENT_PATTERN: the ranges a-z and
\* 0-9, the character '*' and the range from '.' to '/'.
HostChars ==
    {c \in Characters :
        \/ Ord[c] \in Ord["a"]..Ord["z"]
        \/ Ord[c] \in Ord["0"]..Ord["9"]
        \/ c = "*"
        \/ Ord[c] \in Ord["."]..Ord["/"]}

(***************************************************************************)
(* String functions of Python.                                             *)
(***************************************************************************)
\* the elements of a set of numbers in increasing order
Ascending(S) ==
    [k \in 1..Cardinality(S) |->
        CHOOSE x \in S : Cardinality({y \in S : y < x}) = k - 1]

\* the least element of a non-empty set of numbers
Least(S) == CHOOSE x \in S : \A y \in S : x <= y

\* the pieces of s between the separators at the positions seps
Fields(s, seps) ==
    LET starts == Ascending({1} \cup {i + 1 : i \in seps})
        stops == seps \cup {Len(s) + 1}
    IN  [k \in DOMAIN starts |->
            SubSeq(s, starts[k], Least({j \in stops : j >= starts[k]}) - 1)]

\* str.split(): the maximal runs of non-whitespace characters
split(s) ==
    LET starts == Ascending({i \in 1..Len(s) :
                      s[i] \notin Whitespace /\ (i = 1 \/ s[i - 1] \in Whitespace)})
        stops == Ascending({i \in 1..Len(s) :
                      s[i] \notin Whitespace /\ (i = Len(s) \/ s[i + 1] \in Whitespace)})
    IN  [k \in DOMAIN starts |-> SubSeq(s, starts[k], stops[k])]

\* str.split(sep) for a one-character separator: empty fields are kept
split_sep(s, sep) == Fields(s, {i \in 1..Len(s) : s[i] = sep})

\* str.splitlines(): the lines without their line breaks; no empty last line
\* after a final line break
splitlines(s) ==
    LET fields == Fields(s, {i \in 1..Len(s) : s[i] = "\n"})
    IN  IF fields[Len(fields)] = <<>>
        THEN SubSeq(fields, 1, Len(fields) - 1)
        ELSE fields

\* str.strip()
strip(s) ==
    IF \A i \in 1..Len(s) : s[i] \in Whitespace THEN <<>>
    ELSE SubSeq(s,
                CHOOSE i \in 1..Len(s) :
                    s[i] \notin Whitespace /\ \A j \in 1..(i - 1) : s[j] \in Whitespace,
                CHOOSE i \in 1..Len(s) :
                    s[i] \notin Whitespace /\ \A j \in (i + 1)..Len(s) : s[j] \in Whitespace)

\* the first element of str.partition(sep): the part before the first sep
partition_head(s, sep) ==
    SubSeq(s, 1, Least({i \in 1..Len(s) : s[i] = sep} \cup {Len(s) + 1}) - 1)

RECURSIVE join(_, _)
\* sep.join(parts)
join(sep, parts) ==
    IF parts = <<>> THEN <<>>
    ELSE IF Len(parts) = 1 THEN parts[1]
    ELSE parts[1] \o sep \o join(sep, Tail(parts))

Spaces(n) == IF n > 0 THEN [i \in 1..n |-> " "] ELSE <<>>

\* the width of the export point field in Export.serialize
PadWidth == 32

\* format(s, '<N.Ns'): left-aligned in a field of width exactly n
ljust_truncate(s, n) == SubSeq(s \o Spaces(n - Len(s)), 1, n)

\* format(s, '<Ns'): left-aligned in a field of minimum width n
ljust(s, n) == s \o Spaces(n - Len(s))

(***************************************************************************)
(* Dicts and sets.                                                         *)
(***************************************************************************)
EmptyDict == [k \in {} |-> {}]

DictSet(d, k, v) == [x \in (DOMAIN d) \cup {k} |-> IF x = k THEN v ELSE d[x]]

DictDel(d, k) == [x \in (DOMAIN d) \ {k} |-> d[x]]

Range(s) == {s[i] : i \in DOMAIN s}

\* the orders in which a dict or a frozenset may be iterated
Orderings(S) ==
    {o \in [1..Cardinality(S) -> S] : \A i, j \in DOMAIN o : o[i] = o[j] => i = j}

(***************************************************************************)
(* class Export                                                            *)
(***************************************************************************)
None == [export_point |-> <<>>, clients |-> EmptyDict]

Returned(value) == [raised |-> "none", value |-> value]

Raised(exception) == [raised |-> exception, value |-> None]

\* Export.__init__
Export(export_point, clients) ==
    IF DOMAIN clients = {}
    THEN Raised("ExportException")
    ELSE Returned([export_point |-> export_point, clients |-> clients])

\* the length of the longest prefix of s made of host characters
HostRun(s) ==
    Least({i \in 1..Len(s) : s[i] \notin HostChars} \cup {Len(s) + 1}) - 1

\* client_extract: CLIENT_PATTERN.match(client), then the groups 'host' and
\* 'options'.  The host group is greedy and '(' is not a host character, so
\* the host is the longest prefix of host characters; what follows is either
\* nothing or '(' + one or more characters + ')' up to the end of the token.
client_extract(client) ==
    LET n == HostRun(client)
        rest == SubSeq(client, n + 1, Len(client))
        m == Len(rest)
    IN  IF n = 0
        THEN [raised |-> "DeserializationException", host |-> <<>>, options |-> {}]
        ELSE IF m = 0
        THEN [raised |-> "none", host |-> SubSeq(client, 1, n), options |-> {}]
        ELSE IF m >= 3 /\ rest[1] = "(" /\ rest[m] = ")"
        THEN [raised |-> "none", host |-> SubSeq(client, 1, n),
              options |-> Range(split_sep(SubSeq(rest, 2, m - 1), ","))]
        ELSE [raised |-> "DeserializationException", host |-> <<>>, options |-> {}]

\* dict(map(client_extract, tokens)): a later token of a host replaces an
\* earlier one
RECURSIVE ClientsOf(_, _)
ClientsOf(tokens, acc) ==
    IF tokens = <<>> THEN acc
    ELSE LET c == client_extract(Head(tokens))
         IN  ClientsOf(Tail(tokens), DictSet(acc, c.host, c.options))

\* Export.deserialize
Export_deserialize(ln) ==
    LET export_parts == split(ln)
    IN  IF Len(export_parts) < 2
        THEN Raised("DeserializationException")
        ELSE IF \E i \in 2..Len(export_parts) :
                    client_extract(export_parts[i]).raised # "none"
        THEN Raised("DeserializationException")
        ELSE Export(export_parts[1], ClientsOf(Tail(export_parts), EmptyDict))

\* An iteration order of an Export: the order of clients.items() and, for
\* each host, the order of its frozenset of options.
ExportOrders(e) ==
    [hosts : Orderings(DOMAIN e.clients),
     options : {f \in [DOMAIN e.clients -> UNION {Orderings(e.clients[h]) : h \in DOMAIN e.clients}] :
                    \A h \in DOMAIN e.clients : f[h] \in Orderings(e.clients[h])}]

\* the loop of Export.serialize building the string clients
RECURSIVE ClientsText(_, _, _)
ClientsText(e, hosts, options) ==
    IF hosts = <<>> THEN <<>>
    ELSE LET host == Head(hosts)
         IN  <<" ">> \o host
             \o (IF e.clients[host] # {}
                 THEN <<"(">> \o join(<<",">>, options[host]) \o <<")">>
                 ELSE <<>>)
             \o ClientsText(e, Tail(hosts), options)

\* Export.serialize, iterating in the given order
Export_serialize(e, order) ==
    ljust(e.export_point, PadWidth) \o <<" ">>
    \o ClientsText(e, order.hosts, order.options)


(***************************************************************************)
(* class ExportTable                                                       *)
(***************************************************************************)
NoTable == [raised |-> "none", value |-> EmptyDict]

RaisedTable(exception) == [raised |-> exception, value |-> EmptyDict]

\* ExportTable.__init__: dict((export.export_point, export) for export in
\* exports); a later export of an export point replaces an earlier one
RECURSIVE ExportTable(_)
ExportTable(exportlist) ==
    IF exportlist = <<>> THEN EmptyDict
    ELSE LET n == Len(exportlist)
             e == exportlist[n]
         IN  DictSet(ExportTable(SubSeq(exportlist, 1, n - 1)), e.export_point, e)

\* add_client replacing the options of a host that is already a client
add_client_overwrite(t, export_point, host, options) ==
    LET export_options == IF options.is_none THEN {} ELSE Range(options.items)
        clients == IF export_point \in DOMAIN t
                   THEN DictSet(t[export_point].clients, host, export_options)
                   ELSE DictSet(EmptyDict, host, export_options)
    IN  [raised |-> "none",
         value |-> DictSet(t, export_point,
                           [export_point |-> export_point, clients |-> clients])]

\* add_client replacing the clients of an export point by the new client
add_client_fresh(t, export_point, host, options) ==
    LET export_options == IF options.is_none THEN {} ELSE Range(options.items)
    IN  IF export_point \in DOMAIN t /\ host \in DOMAIN t[export_point].clients
        THEN [raised |-> "ClientExistsException", value |-> t]
        ELSE [raised |-> "none",
              value |-> DictSet(t, export_point,
                                [export_point |-> export_point,
                                 clients |-> DictSet(EmptyDict, host, export_options)])]

\* ExportTable.add_client.  The field value is self.exports when the call
\* returns or raises; clients[host] = export_options updates the dict of the
\* Export in the table in place, before the Export is constructed.
add_client(t, export_point, host, options) ==
    LET export_options == IF options.is_none THEN {} ELSE Range(options.items)
    IN  IF export_point \notin DOMAIN t
        THEN LET e == Export(export_point, DictSet(EmptyDict, host, export_options))
             IN  IF e.raised # "none"
                 THEN [raised |-> e.raised, value |-> t]
                 ELSE [raised |-> "none", value |-> DictSet(t, export_point, e.value)]
        ELSE LET clients == t[export_point].clients
             IN  IF host \in DOMAIN clients
                 THEN [raised |-> "ClientExistsException", value |-> t]
                 ELSE LET updated == DictSet(clients, host, export_options)
                          e == Export(export_point, updated)
                      IN  IF e.raised # "none"
                          THEN [raised |-> e.raised,
                                value |-> [t EXCEPT ![export_point].clients = updated]]
                          ELSE [raised |-> "none",
                                value |-> DictSet(t, export_point, e.value)]

\* remove_client that does nothing when the host or export point is missing
\* and deletes the export point whenever a host is removed
remove_client_drop(t, export_point, host) ==
    IF export_point \notin DOMAIN t
    THEN [raised |-> "ExportNotFoundException", value |-> t]
    ELSE IF host \notin DOMAIN t[export_point].clients
    THEN [raised |-> "ClientNotFoundException", value |-> t]
    ELSE [raised |-> "none", value |-> DictDel(t, export_point)]

\* remove_client that reports a missing host as a missing export point
remove_client_conflate(t, export_point, host) ==
    IF export_point \notin DOMAIN t \/ host \notin DOMAIN t[export_point].clients
    THEN [raised |-> "ExportNotFoundException", value |-> t]
    ELSE IF Cardinality(DOMAIN t[export_point].clients) > 1
    THEN [raised |-> "none",
          value |-> [t EXCEPT ![export_point].clients = DictDel(@, host)]]
    ELSE [raised |-> "none", value |-> DictDel(t, export_point)]

\* remove_client with the test len(clients) > 0 in place of len(clients) > 1
remove_client_keep(t, export_point, host) ==
    IF export_point \notin DOMAIN t
    THEN [raised |-> "ExportNotFoundException", value |-> t]
    ELSE IF host \notin DOMAIN t[export_point].clients
    THEN [raised |-> "ClientNotFoundException", value |-> t]
    ELSE LET reduced == DictDel(t[export_point].clients, host)
             e == Export(export_point, reduced)
         IN  IF e.raised # "none"
             THEN [raised |-> e.raised,
                   value |-> [t EXCEPT ![export_point].clients = reduced]]
             ELSE [raised |-> "none", value |-> DictSet(t, export_point, e.value)]

\* ExportTable.remove_client.  del clients[host] updates the dict of the
\* Export in the table in place, before the Export is constructed.
remove_client(t, export_point, host) ==
    IF export_point \notin DOMAIN t
    THEN [raised |-> "ExportNotFoundException", value |-> t]
    ELSE LET clients == t[export_point].clients
         IN  IF host \notin DOMAIN clients
             THEN [raised |-> "ClientNotFoundException", value |-> t]
             ELSE IF Cardinality(DOMAIN clients) > 1
             THEN LET reduced == DictDel(clients, host)
                      e == Export(export_point, reduced)
                  IN  IF e.raised # "none"
                      THEN [raised |-> e.raised,
                            value |-> [t EXCEPT ![export_point].clients = reduced]]
                      ELSE [raised |-> "none",
                            value |-> DictSet(t, export_point, e.value)]
             ELSE [raised |-> "none", value |-> DictDel(t, export_point)]

\* strip_comment of ExportTable.deserialize
strip_comment(ln) == partition_head(ln, "#")

\* is_blank without the test for a leading '#'
is_blank_no_comment(ln) == strip(ln) = <<>>

\* is_blank of ExportTable.deserialize
is_blank(ln) ==
    LET stripped == strip(ln)
    IN  stripped = <<>> \/ Head(stripped) = "#"

\* ExportTable.deserialize skipping the lines that do not parse
RECURSIVE deserialize_skipping(_)
deserialize_skipping(export_content) ==
    IF export_content = <<>> THEN NoTable
    ELSE LET n == Len(export_content)
             ln == export_content[n]
             before == deserialize_skipping(SubSeq(export_content, 1, n - 1))
             e == Export_deserialize(strip_comment(ln))
         IN  IF is_blank(ln) \/ e.raised # "none" THEN before
             ELSE [raised |-> "none",
                   value |-> DictSet(before.value, e.value.export_point, e.value)]

\* ExportTable.deserialize adding the clients of a line to those of an
\* earlier line for the same export point
RECURSIVE deserialize_merging(_)
deserialize_merging(export_content) ==
    IF export_content = <<>> THEN NoTable
    ELSE LET n == Len(export_content)
             ln == export_content[n]
             before == deserialize_merging(SubSeq(export_content, 1, n - 1))
         IN  IF before.raised # "none" THEN before
             ELSE IF is_blank(ln) THEN before
             ELSE LET e == Export_deserialize(strip_comment(ln))
                      p == e.value.export_point
                      earlier == IF p \in DOMAIN before.value
                                 THEN before.value[p].clients ELSE EmptyDict
                      merged == [h \in DOMAIN earlier \cup DOMAIN e.value.clients |->
                                    IF h \in DOMAIN e.value.clients
                                    THEN e.value.clients[h] ELSE earlier[h]]
                  IN  IF e.raised # "none" THEN RaisedTable(e.raised)
                      ELSE [raised |-> "none",
                            value |-> DictSet(before.value, p,
                                              [e.value EXCEPT !.clients = merged])]

\* ExportTable.deserialize: cls(generator): the lines are parsed in order as
\* the dict is built, and the first exception ends the call
RECURSIVE ExportTable_deserialize(_)
ExportTable_deserialize(export_content) ==
    IF export_content = <<>> THEN NoTable
    ELSE LET n == Len(export_content)
             ln == export_content[n]
             before == ExportTable_deserialize(SubSeq(export_content, 1, n - 1))
         IN  IF before.raised # "none" THEN before
             ELSE IF is_blank(ln) THEN before
             ELSE LET e == Export_deserialize(strip_comment(ln))
                  IN  IF e.raised # "none" THEN RaisedTable(e.raised)
                      ELSE [raised |-> "none",
                            value |-> DictSet(before.value, e.value.export_point, e.value)]

\* An iteration order of a table: the order of exports.values() and the
\* iteration order of each Export.
TableOrders(t) ==
    [points : Orderings(DOMAIN t),
     each : {f \in [DOMAIN t -> UNION {ExportOrders(t[p]) : p \in DOMAIN t}] :
                \A p \in DOMAIN t : f[p] \in ExportOrders(t[p])}]

\* ExportTable.serialize with the lines joined by the empty string
ExportTable_serialize_joined(t, order) ==
    join(<<>>,
         [i \in 1..Len(order.points) |->
            Export_serialize(t[order.points[i]], order.each[order.points[i]])])
    \o <<"\n">>

\* ExportTable.serialize without the final newline
ExportTable_serialize_bare(t, order) ==
    join(<<"\n">>,
         [i \in 1..Len(order.points) |->
            Export_serialize(t[order.points[i]], order.each[order.points[i]])])

\* ExportTable.serialize, iterating in the given order
ExportTable_serialize(t, order) ==
    join(<<"\n">>,
         [i \in 1..Len(order.points) |->
            Export_serialize(t[order.points[i]], order.each[order.points[i]])])
    \o <<"\n">>


(***************************************************************************)
(* The values the calls are made with.                                     *)
(***************************************************************************)
ShortPoint == <<"/", "p", "1">>

\* an export point longer than the padded field: 33 characters
LongPoint == <<"/", "A", "_", ",", "-", ".", "/">> \o [i \in 1..26 |-> "x"]

ExportPoints == {ShortPoint, LongPoint}

HostName == <<"h", "o", "s", "t">>
HostIp == <<"1", ".", "2", ".", "3", ".", "4">>
HostNetwork == <<"1", ".", "2", ".", "3", ".", "0", "/", "2", "4">>

Hosts == {HostName, HostIp, HostNetwork}

OptionRw == <<"r", "w">>
OptionFsid == <<"f", "s", "i", "d", "=", "0">>

OptionWords == {OptionRw, OptionFsid}

\* the argument options of add_client: None or a sequence of option words
NoneOptions == [is_none |-> TRUE, items |-> <<>>]

OptionArgs ==
    {NoneOptions} \cup
    {[is_none |-> FALSE, items |-> o] :
        o \in {<<>>, <<OptionRw>>, <<OptionFsid, OptionRw>>}}

\* the hosts add_client and remove_client are called with
CallHosts == {HostName, HostNetwork}

\* Export values with at most k clients
ValidExports(k) ==
    UNION {{Export(p, c).value : p \in ExportPoints, c \in [H -> SUBSET OptionWords]} :
              H \in {G \in SUBSET Hosts : 1 <= Cardinality(G) /\ Cardinality(G) <= k}}

\* lists of Export values with at most k clients in all
RECURSIVE ExportLists(_)
ExportLists(k) ==
    {<<>>} \cup
    UNION {{<<e>> \o l : l \in ExportLists(k - Cardinality(DOMAIN e.clients))} :
              e \in ValidExports(k)}

\* the pieces a single line is put together from
Pieces ==
    {ShortPoint, <<" ">>, <<"h">>, <<"(", "r", "w", ")">>, <<"(">>, <<")">>,
     <<"#">>, <<"-">>, <<"\n">>}

\* lines made of at most n pieces
RECURSIVE Lines(_)
Lines(n) ==
    IF n = 0 THEN {<<>>}
    ELSE Lines(n - 1) \cup {l \o q : l \in Lines(n - 1), q \in Pieces}

\* the lines test_export_deserialization_invalid lists as invalid
InvalidHostsOnly ==
    <<" ", " ", "h", "o", "s", "t", "(", "r", "w", ")", " ", "h", "o",
      "s", "t", "2", "(", "r", "o", ")">>

InvalidOptionsOnly ==
    <<"/", "f", "i", "l", "e", "s", "y", "s", "t", "e", "m", " ", "(",
      "r", "w", ",", "r", "o", ")">>

InvalidOptionsLast ==
    <<"/", "f", "i", "l", "e", "s", "y", "s", "t", "e", "m", " ", "h",
      "o", "s", "t", "(", "r", "w", ")", " ", "(", "r", "w", ",", "r",
      "o", ")">>

InvalidOptionsFirst ==
    <<"/", "f", "i", "l", "e", "s", "y", "s", "t", "e", "m", " ", "(",
      "r", "w", ",", "r", "o", ")", " ", "h", "o", "s", "t", "(", "r",
      "o", ")">>

InvalidNoClient ==
    <<"/", "f", "i", "l", "e", "s", "y", "s", "t", "e", "m">>

invalid_lines ==
    {InvalidHostsOnly, InvalidOptionsOnly, InvalidOptionsLast,
     InvalidOptionsFirst, InvalidNoClient}

\* a line whose first token is a parenthesized option group
OptionsThenHost ==
    <<"(", "r", "w", ",", "r", "o", ")", " ", "h", "o", "s", "t">>

\* the lines test_export_deserialization parses
ExportLineNetworks ==
    <<"/", "f", "i", "l", "e", "s", "y", "s", "t", "e", "m", " ", "1",
      "0", ".", "0", ".", "0", ".", "0", "/", "2", "4", "(", "r", "w",
      ",", "s", "y", "n", "c", ")", " ", "*", ".", "c", "l", "i", "e",
      "n", "t", "s", ".", "i", "n", "t", "e", "r", "n", "a", "l", "(",
      "r", "w", ")">>

ExportLineAddresses ==
    <<"/", "f", "i", "l", "e", "s", "y", "s", "t", "e", "m", " ", "1",
      "9", "2", ".", "1", "6", "8", ".", "0", ".", "1", " ", "1", "9",
      "2", ".", "1", "6", "8", ".", "0", ".", "2", "(", "r", "w", ")">>

export_lines == {ExportLineNetworks, ExportLineAddresses}

\* a line whose client is a hostname with a '-'
ExportLineDash ==
    <<"/", "f", "i", "l", "e", "s", "y", "s", "t", "e", "m", " ", "d",
      "b", "-", "1", ".", "l", "o", "c", "a", "l", "(", "r", "w", ")">>

\* the single lines Export.deserialize is called with
LineInputs ==
    Lines(MaxPieces) \cup invalid_lines \cup export_lines
        \cup {OptionsThenHost, ExportLineDash}

Comment == <<"#", " ", "c">>

\* the lines a file is put together from: exports, blank and comment lines,
\* with and without the line break, and lines that are not exports
FileLines ==
    {ShortPoint \o <<" ">> \o HostName \o <<"(", "r", "w", ")">>,
     ShortPoint \o <<"\t">> \o HostIp \o <<"\n">>,
     LongPoint \o <<" ">> \o HostNetwork \o <<"(">> \o OptionFsid \o <<",">>
         \o OptionRw \o <<")", " ">> \o HostName \o <<" ">> \o Comment \o <<"\n">>,
     <<>>,
     <<" ", "\n">>,
     Comment,
     <<" ", " ">> \o Comment \o <<"\n">>,
     ShortPoint,
     ShortPoint \o <<" ", "(", "r", "w", ")">> \o <<"\n">>}

\* files of at most n lines
RECURSIVE Files(_)
Files(n) ==
    IF n = 0 THEN {<<>>}
    ELSE Files(n - 1) \cup {Append(f, l) : f \in Files(n - 1), l \in FileLines}

NoCall == [op |-> "none", export_point |-> <<>>, host |-> <<>>,
           options |-> NoneOptions]

\* the number of grants of a table
RECURSIVE GrantCount(_)
GrantCount(t) ==
    IF DOMAIN t = {} THEN 0
    ELSE LET p == CHOOSE q \in DOMAIN t : TRUE
         IN  Cardinality(DOMAIN t[p].clients) + GrantCount(DictDel(t, p))

\* nothing but the helper functions themselves is looked at
NoSystem ==
    /\ privileges = [euid |-> 0, egid |-> 0, scopes |-> <<>>, raising |-> "none"]
    /\ temporary = EmptyDict
    /\ observed = <<"unread">>
    /\ visible_to = EmptyDict
    /\ spawned = 0

\* no helper function is invoked: no file, no root, no process
NoInvocation ==
    /\ exports_file = <<>>
    /\ root = {}
    /\ sighups = <<>>
    /\ environment = [paths |-> {}, binaries |-> {}, pids |-> EmptyDict]
    /\ invocation = <<>>

NoHelper == NoSystem /\ NoInvocation

(***************************************************************************)
(* Calls on one ExportTable.                                               *)
(***************************************************************************)
InitTable ==
    /\ \/ origin = "empty" /\ exports = ExportTable(<<>>)
       \/ /\ origin = "deserialized"
          /\ \E f \in Files(MaxLines) :
                /\ ExportTable_deserialize(f).raised = "none"
                /\ exports = ExportTable_deserialize(f).value
    /\ granted = {}
    /\ call = NoCall
    /\ outcome = "none"
    /\ text = <<>>
    /\ content = <<>>
    /\ loaded = NoTable
    /\ export = None
    /\ line = <<>>
    /\ parsed = Returned(None)
    /\ pc = "table"
    /\ NoHelper

AddClient ==
    \E export_point \in ExportPoints, host \in CallHosts, options \in OptionArgs :
        LET r == add_client(exports, export_point, host, options)
        IN  /\ pc = "table"
            /\ r.raised # "none" \/ GrantCount(exports) < MaxGrants
            /\ exports' = r.value
            /\ outcome' = r.raised
            /\ call' = [op |-> "add_client", export_point |-> export_point,
                        host |-> host, options |-> options]
            /\ granted' = IF r.raised = "none"
                          THEN granted \cup
                               {<<export_point, host,
                                  IF options.is_none THEN {} ELSE Range(options.items)>>}
                          ELSE granted
            /\ text' = <<>>
            /\ loaded' = NoTable
            /\ UNCHANGED <<origin, content, export, line, parsed, pc>>
            /\ UNCHANGED helper_vars
            /\ UNCHANGED system_vars

RemoveClient ==
    \E export_point \in ExportPoints, host \in CallHosts :
        LET r == remove_client(exports, export_point, host)
        IN  /\ pc = "table"
            /\ exports' = r.value
            /\ outcome' = r.raised
            /\ call' = [op |-> "remove_client", export_point |-> export_point,
                        host |-> host, options |-> NoneOptions]
            /\ granted' = IF r.raised = "none"
                          THEN {g \in granted : ~(g[1] = export_point /\ g[2] = host)}
                          ELSE granted
            /\ text' = <<>>
            /\ loaded' = NoTable
            /\ UNCHANGED <<origin, content, export, line, parsed, pc>>
            /\ UNCHANGED helper_vars
            /\ UNCHANGED system_vars

\* exports.serialize(), then ExportTable.deserialize(text.splitlines())
Reparse ==
    \E order \in TableOrders(exports) :
        LET serialized == ExportTable_serialize(exports, order)
            r == ExportTable_deserialize(splitlines(serialized))
        IN  /\ pc = "table"
            /\ text' = serialized
            /\ loaded' = r
            /\ outcome' = r.raised
            /\ call' = [op |-> "serialize", export_point |-> <<>>, host |-> <<>>,
                        options |-> NoneOptions]
            /\ UNCHANGED <<exports, origin, granted, content, export, line,
                           parsed, pc>>
            /\ UNCHANGED helper_vars
            /\ UNCHANGED system_vars

Next == AddClient \/ RemoveClient \/ Reparse

Spec == InitTable /\ [][Next]_vars

(***************************************************************************)
(* Serialization and deserialization of given values.                      *)
(***************************************************************************)
InitCodec ==
    /\ NoHelper
    /\ granted = {}
    /\ call = NoCall
    /\ outcome = "none"
    /\ text = <<>>
    /\ loaded = NoTable
    /\ parsed = Returned(None)
    /\ \/ /\ pc = "export" /\ origin = "constructed"
          /\ export \in ValidExports(MaxClients)
          /\ line = <<>> /\ exports = EmptyDict /\ content = <<>>
       \/ /\ pc = "line" /\ origin = "input"
          /\ line \in LineInputs
          /\ export = None /\ exports = EmptyDict /\ content = <<>>
       \/ /\ pc = "table" /\ origin = "constructed"
          /\ \E l \in ExportLists(MaxGrants) : exports = ExportTable(l)
          /\ export = None /\ line = <<>> /\ content = <<>>
       \/ /\ pc = "lines" /\ origin = "input"
          /\ content \in Files(MaxLines) \cup {<<l>> : l \in Lines(MaxPieces)}
          /\ export = None /\ line = <<>> /\ exports = EmptyDict

\* line = export.serialize()
ExportSerialize ==
    /\ pc = "export"
    /\ \E order \in ExportOrders(export) : line' = Export_serialize(export, order)
    /\ pc' = "line"
    /\ UNCHANGED <<exports, origin, granted, call, outcome, text, content,
                   loaded, export, parsed>>
    /\ UNCHANGED helper_vars
    /\ UNCHANGED system_vars

\* Export.deserialize(line)
ExportDeserialize ==
    /\ pc = "line"
    /\ parsed' = Export_deserialize(line)
    /\ pc' = "export_done"
    /\ UNCHANGED <<exports, origin, granted, call, outcome, text, content,
                   loaded, export, line>>
    /\ UNCHANGED helper_vars
    /\ UNCHANGED system_vars

\* content = exports.serialize().splitlines()
TableSerialize ==
    /\ pc = "table"
    /\ \E order \in TableOrders(exports) :
          /\ text' = ExportTable_serialize(exports, order)
          /\ content' = splitlines(text')
    /\ pc' = "lines"
    /\ UNCHANGED <<exports, origin, granted, call, outcome, loaded, export,
                   line, parsed>>
    /\ UNCHANGED helper_vars
    /\ UNCHANGED system_vars

\* ExportTable.deserialize(content)
TableDeserialize ==
    /\ pc = "lines"
    /\ loaded' = ExportTable_deserialize(content)
    /\ pc' = "table_done"
    /\ UNCHANGED <<exports, origin, granted, call, outcome, text, content,
                   export, line, parsed>>
    /\ UNCHANGED helper_vars
    /\ UNCHANGED system_vars

NextCodec ==
    ExportSerialize \/ ExportDeserialize \/ TableSerialize \/ TableDeserialize

SpecCodec == InitCodec /\ [][NextCodec]_vars

(***************************************************************************)
(* helper.py: the functions that manage the exports, working on the        *)
(* exports file, the directories under the mounted root and the running    *)
(* services.                                                               *)
(***************************************************************************)
\* the arguments exports_file and root_export, as the CLI defaults them
ExportsFilePath == "/etc/exports.conf"

RootExport == "127.0.0.1:/"

\* the binaries verify_environment looks for
binaries == <<"rpcbind", "sfused">>

\* iterating a text file: its lines, each with its line break
readlines(s) ==
    LET fields == Fields(s, {i \in 1..Len(s) : s[i] = "\n"})
        n == Len(fields)
        ended == [k \in 1..n |-> IF k < n THEN fields[k] \o <<"\n">> ELSE fields[k]]
    IN  IF fields[n] = <<>> THEN SubSeq(ended, 1, n - 1) ELSE ended

\* os.path.join('/', export_name)
export_point_of(export_name) ==
    IF export_name # <<>> /\ export_name[1] = "/" THEN export_name
    ELSE <<"/">> \o export_name

\* 'TRASH-{0:s}'.format(export_name)
tombstone_of(export_name) == <<"T", "R", "A", "S", "H", "-">> \o export_name

\* utils.find_pids(process): the pids of the processes of that name
find_pids(env, process) == env.pids[process]

\* verify_environment(exports_file): the exception it raises, or "none"
verify_environment(env, path) ==
    IF path \notin env.paths THEN "EnvironmentException"
    ELSE IF \E k \in DOMAIN binaries :
                \/ binaries[k] \notin env.binaries
                \/ find_pids(env, binaries[k]) = <<>>
    THEN "EnvironmentException"
    ELSE "none"

\* The first argument of verify_environment in wrapper(*args, **kwargs): the
\* exports file when the caller passes keywords, the first positional
\* argument, root_export, when the caller passes positions.
verified_path(style) ==
    IF style = "keywords" THEN ExportsFilePath ELSE RootExport

\* _get_defined_exports(exports_file)
_get_defined_exports(env, file) ==
    IF ExportsFilePath \notin env.paths THEN RaisedTable("IOError")
    ELSE ExportTable_deserialize(readlines(file))

\* the name test of add_export
invalid_name(export_name) == export_name = <<>> \/ "/" \in Range(export_name)

\* list(permissions) for every client of an export, in some order
ClientLists(e) ==
    {f \in [DOMAIN e.clients -> UNION {Orderings(e.clients[h]) : h \in DOMAIN e.clients}] :
        \A h \in DOMAIN e.clients : f[h] \in Orderings(e.clients[h])}

\* the export names the helper functions are called with
ExportName == <<"p", "1">>

OtherName == <<"b">>

EmptyName == <<>>

NestedName == <<"a", "/", "b">>

\* the hosts of the initial exports file and of the calls
GrantHost == HostName

\* the calls of the helper functions
HelperCalls ==
    {[op |-> "add_export", export_name |-> n, host |-> <<>>, options |-> NoneOptions] :
        n \in {ExportName, EmptyName, NestedName}}
    \cup {[op |-> o, export_name |-> ExportName, host |-> <<>>, options |-> NoneOptions] :
            o \in {"wipe_export", "get_export"}}
    \cup {[op |-> "grant_access", export_name |-> ExportName, host |-> GrantHost,
           options |-> o] :
            o \in {NoneOptions, [is_none |-> FALSE, items |-> <<OptionRw>>]}}
    \cup {[op |-> "revoke_access", export_name |-> ExportName, host |-> GrantHost,
           options |-> NoneOptions]}

\* How the caller passes the arguments: all by keyword, as cli.main does;
\* all by position; or, for add_export, by position with exports_file as a
\* keyword.
CallStyles(op) ==
    IF op = "add_export" THEN {"keywords", "positional", "mixed"}
    ELSE {"keywords", "positional"}

\* the text of the exports file before the first call
InitialFiles ==
    {<<>>,
     ShortPoint \o <<" ">> \o HostName \o <<"(", "r", "w", ")", "\n">>,
     <<"/">> \o OtherName \o <<" ">> \o HostIp \o <<"\n">>
         \o ShortPoint \o <<" ">> \o HostNetwork \o <<" ">> \o Comment \o <<"\n">>,
     ShortPoint \o <<"\n">>}

\* the directories under the root before the first call
InitialRoots == {{}, {ExportName, OtherName}}

\* the environments: ready; no exports file at the configured path while
\* root_export names an existing path; sfused not installed; rpcbind not
\* running
HelperEnvironments ==
    {[paths |-> {ExportsFilePath}, binaries |-> {"rpcbind", "sfused"},
      pids |-> [b \in {"rpcbind", "sfused"} |->
                    IF b = "sfused" THEN <<100, 101>> ELSE <<1>>]],
     [paths |-> {RootExport}, binaries |-> {"rpcbind", "sfused"},
      pids |-> [b \in {"rpcbind", "sfused"} |->
                    IF b = "sfused" THEN <<100>> ELSE <<1>>]],
     [paths |-> {ExportsFilePath}, binaries |-> {"rpcbind"},
      pids |-> [b \in {"rpcbind", "sfused"} |->
                    IF b = "sfused" THEN <<100>> ELSE <<1>>]],
     [paths |-> {ExportsFilePath}, binaries |-> {"rpcbind", "sfused"},
      pids |-> [b \in {"rpcbind", "sfused"} |->
                    IF b = "sfused" THEN <<100>> ELSE <<>>]]}

\* the number of invocations of helper functions, which may overlap
MaxInvocations == 2

\* an invocation that has not started
Idle ==
    [pc |-> "idle", op |-> "none", export_name |-> <<>>, host |-> <<>>,
     options |-> NoneOptions,
     checked |-> "",            \* the path verify_environment looked for
     listing |-> {},            \* what _get_export_points returned
     loaded |-> EmptyDict,      \* the table _get_defined_exports returned
     handed |-> EmptyDict,      \* the table handed to _reexport
     serialized_exports |-> <<>>,
     sfused_pids |-> <<>>,
     overlapped |-> FALSE,      \* another invocation ran during this one
     raised |-> "none",
     result |-> EmptyDict,      \* the clients get_export returns
     output |-> <<>>,           \* the JSON text get_export returns
     events |-> <<>>]           \* what the invocation did, in order

\* the invocation has started and has not ended
Running(inv) == inv.pc \notin {"idle", "done"}

\* the invocation went on with these events
Logged(inv, events) == [inv EXCEPT !.events = @ \o events]

\* the invocation ended with this exception
Failed(inv, exception) == [inv EXCEPT !.pc = "done", !.raised = exception]

\* entering and leaving elevated_privileges and nfs_mount
Enter == <<"elevated_privileges", "nfs_mount">>

Leave == <<"umount", "drop_privileges">>

\* the table state is not used by the helper scenario
NoScenario ==
    /\ exports = EmptyDict
    /\ origin = "helper"
    /\ granted = {}
    /\ call = NoCall
    /\ outcome = "none"
    /\ text = <<>>
    /\ content = <<>>
    /\ loaded = NoTable
    /\ export = None
    /\ line = <<>>
    /\ parsed = Returned(None)
    /\ pc = "helper"

InitHelper ==
    /\ NoScenario
    /\ NoSystem
    /\ exports_file \in InitialFiles
    /\ root \in InitialRoots
    /\ sighups = <<>>
    /\ environment \in HelperEnvironments
    /\ invocation = [i \in 1..MaxInvocations |-> Idle]

\* wrapper of ensure_environment: verify_environment(*args, **kwargs), then
\* the body of the function up to its first look at the file or the root,
\* for one of the given calls made in one of the given ways
Invoking(i, calls, styles) ==
    \E c \in calls :
      \E style \in CallStyles(c.op) \cap styles :
        LET started == [Idle EXCEPT !.op = c.op, !.export_name = c.export_name,
                                    !.host = c.host, !.options = c.options,
                                    !.overlapped =
                                        \E j \in DOMAIN invocation :
                                            Running(invocation[j])]
            verifying == [started EXCEPT !.checked = verified_path(style),
                                         !.events = <<"verify_environment">>]
            verified == verify_environment(environment, verified_path(style))
        IN  /\ invocation[i].pc = "idle"
            /\ \A j \in 1..(i - 1) : invocation[j].pc # "idle"
            /\ invocation' = [j \in DOMAIN invocation |->
                  IF j # i
                  THEN [invocation[j] EXCEPT !.overlapped = @ \/ Running(invocation[j])]
                  ELSE IF style = "mixed" THEN Failed(started, "TypeError")
                  ELSE IF verified # "none" THEN Failed(verifying, verified)
                  ELSE IF c.op = "add_export"
                  THEN IF invalid_name(c.export_name)
                       THEN Failed(verifying, "ExportException")
                       ELSE [verifying EXCEPT !.pc = "exists"]
                  ELSE IF c.op = "grant_access"
                  THEN [verifying EXCEPT !.pc = "listdir"]
                  ELSE [verifying EXCEPT !.pc = "read"]]
            /\ UNCHANGED <<exports_file, root, sighups, environment>>
            /\ UNCHANGED table_vars
            /\ UNCHANGED system_vars

\* the wrapper followed by an add_export that does not test the name
Invoke_any_name(i) ==
    \E c \in HelperCalls :
      \E style \in CallStyles(c.op) :
        LET started == [Idle EXCEPT !.op = c.op, !.export_name = c.export_name,
                                    !.host = c.host, !.options = c.options,
                                    !.overlapped =
                                        \E j \in DOMAIN invocation :
                                            Running(invocation[j])]
            verifying == [started EXCEPT !.checked = verified_path(style),
                                         !.events = <<"verify_environment">>]
            verified == verify_environment(environment, verified_path(style))
        IN  /\ invocation[i].pc = "idle"
            /\ \A j \in 1..(i - 1) : invocation[j].pc # "idle"
            /\ invocation' = [j \in DOMAIN invocation |->
                  IF j # i
                  THEN [invocation[j] EXCEPT !.overlapped = @ \/ Running(invocation[j])]
                  ELSE IF style = "mixed" THEN Failed(started, "TypeError")
                  ELSE IF verified # "none" THEN Failed(verifying, verified)
                  ELSE IF c.op = "add_export"
                  THEN [verifying EXCEPT !.pc = "exists"]
                  ELSE IF c.op = "grant_access"
                  THEN [verifying EXCEPT !.pc = "listdir"]
                  ELSE [verifying EXCEPT !.pc = "read"]]
            /\ UNCHANGED <<exports_file, root, sighups, environment>>
            /\ UNCHANGED table_vars
            /\ UNCHANGED system_vars

\* a call of a helper function, made in any way
Invoke(i) == Invoking(i, HelperCalls, {"keywords", "positional", "mixed"})

\* add_export that creates the directory without looking for it
AddExportExists_blind(i) ==
    LET inv == invocation[i]
        looked == Logged(inv, Enter \o <<"exists">>)
    IN  /\ inv.pc = "exists"
        /\ invocation' = [invocation EXCEPT ![i] = [looked EXCEPT !.pc = "mkdir"]]
        /\ UNCHANGED <<exports_file, root, sighups, environment>>
        /\ UNCHANGED table_vars
        /\ UNCHANGED system_vars

\* add_export: os.path.exists(export_point) under the mounted root
AddExportExists(i) ==
    LET inv == invocation[i]
        looked == Logged(inv, Enter \o <<"exists">>)
    IN  /\ inv.pc = "exists"
        /\ invocation' = [invocation EXCEPT ![i] =
              IF inv.export_name \in root
              THEN [Logged(looked, Leave) EXCEPT !.pc = "done"]
              ELSE [looked EXCEPT !.pc = "mkdir"]]
        /\ UNCHANGED <<exports_file, root, sighups, environment>>
        /\ UNCHANGED table_vars
        /\ UNCHANGED system_vars

\* add_export: os.mkdir(export_point), os.chmod(export_point, 0o0777); mkdir
\* raises OSError when the directory has been created in the meantime
AddExportMkdir(i) ==
    LET inv == invocation[i]
    IN  /\ inv.pc = "mkdir"
        /\ IF inv.export_name \in root
           THEN /\ invocation' = [invocation EXCEPT ![i] =
                      Failed(Logged(inv, <<"mkdir">> \o Leave), "OSError(EEXIST)")]
                /\ root' = root
           ELSE /\ invocation' = [invocation EXCEPT ![i] =
                      [Logged(inv, <<"mkdir", "chmod">> \o Leave) EXCEPT !.pc = "done"]]
                /\ root' = root \cup {inv.export_name}
        /\ UNCHANGED <<exports_file, sighups, environment>>
        /\ UNCHANGED table_vars
        /\ UNCHANGED system_vars

\* wipe_export that does not look for grants of the export point
WipeLoad_ignoring_grants(i) ==
    LET inv == invocation[i]
    IN  /\ inv.pc = "read" /\ inv.op = "wipe_export"
        /\ \E defined \in {_get_defined_exports(environment, exports_file)} :
             \E read \in {Logged([inv EXCEPT !.loaded = defined.value],
                                 <<"open">>)} :
                invocation' = [invocation EXCEPT ![i] =
                   IF defined.raised # "none" THEN Failed(read, defined.raised)
                   ELSE [read EXCEPT !.pc = "listdir"]]
        /\ UNCHANGED <<exports_file, root, sighups, environment>>
        /\ UNCHANGED table_vars
        /\ UNCHANGED system_vars

\* wipe_export: export_point in _get_defined_exports(exports_file)
WipeLoad(i) ==
    LET inv == invocation[i]
    IN  /\ inv.pc = "read" /\ inv.op = "wipe_export"
        /\ \E defined \in {_get_defined_exports(environment, exports_file)} :
             \E read \in {Logged([inv EXCEPT !.loaded = defined.value],
                                 <<"open">>)} :
                invocation' = [invocation EXCEPT ![i] =
                   IF defined.raised # "none" THEN Failed(read, defined.raised)
                   ELSE IF export_point_of(inv.export_name) \in DOMAIN defined.value
                   THEN Failed(read, "ExportHasGrantsException")
                   ELSE [read EXCEPT !.pc = "listdir"]]
        /\ UNCHANGED <<exports_file, root, sighups, environment>>
        /\ UNCHANGED table_vars
        /\ UNCHANGED system_vars

\* wipe_export: export_name not in _get_export_points(root_export)
WipeList(i) ==
    LET inv == invocation[i]
        listed == Logged([inv EXCEPT !.listing = root],
                         Enter \o <<"listdir">> \o Leave)
    IN  /\ inv.pc = "listdir" /\ inv.op = "wipe_export"
        /\ invocation' = [invocation EXCEPT ![i] =
              IF inv.export_name \notin root
              THEN Failed(listed, "ExportNotFoundException")
              ELSE [listed EXCEPT !.pc = "rename"]]
        /\ UNCHANGED <<exports_file, root, sighups, environment>>
        /\ UNCHANGED table_vars
        /\ UNCHANGED system_vars

\* wipe_export: os.rename(export_path, tombstone_path) and fsync_path(root);
\* every OSError of the rename is raised again
WipeRename(i) ==
    LET inv == invocation[i]
    IN  /\ inv.pc = "rename"
        /\ IF inv.export_name \notin root
           THEN /\ invocation' = [invocation EXCEPT ![i] =
                      Failed(Logged(inv, Enter \o <<"rename">> \o Leave),
                             "OSError(ENOENT)")]
                /\ root' = root
           ELSE /\ invocation' = [invocation EXCEPT ![i] =
                      [Logged(inv, Enter \o <<"rename", "fsync_path">> \o Leave)
                          EXCEPT !.pc = "done"]]
                /\ root' = (root \ {inv.export_name})
                               \cup {tombstone_of(inv.export_name)}
        /\ UNCHANGED <<exports_file, sighups, environment>>
        /\ UNCHANGED table_vars
        /\ UNCHANGED system_vars

\* grant_access that does not look for the directory of the export
GrantList_unchecked(i) ==
    LET inv == invocation[i]
        listed == Logged([inv EXCEPT !.listing = root],
                         Enter \o <<"listdir">> \o Leave)
    IN  /\ inv.pc = "listdir" /\ inv.op = "grant_access"
        /\ invocation' = [invocation EXCEPT ![i] = [listed EXCEPT !.pc = "read"]]
        /\ UNCHANGED <<exports_file, root, sighups, environment>>
        /\ UNCHANGED table_vars
        /\ UNCHANGED system_vars

\* grant_access: export_name not in _get_export_points(root_export)
GrantList(i) ==
    LET inv == invocation[i]
        listed == Logged([inv EXCEPT !.listing = root],
                         Enter \o <<"listdir">> \o Leave)
    IN  /\ inv.pc = "listdir" /\ inv.op = "grant_access"
        /\ invocation' = [invocation EXCEPT ![i] =
              IF inv.export_name \notin root
              THEN Failed(listed, "ExportNotFoundException")
              ELSE [listed EXCEPT !.pc = "read"]]
        /\ UNCHANGED <<exports_file, root, sighups, environment>>
        /\ UNCHANGED table_vars
        /\ UNCHANGED system_vars

\* the start of _reexport(exports_file, exports): exports.serialize() in
\* some iteration order and utils.find_pids('sfused')
Reexporting(inv, table, order) ==
    [Logged(inv, <<"serialize", "find_pids">>) EXCEPT
        !.handed = table,
        !.serialized_exports = ExportTable_serialize(table, order),
        !.sfused_pids = find_pids(environment, "sfused"),
        !.pc = "safe_write"]

\* grant_access that re-exports the table also when add_client raised
GrantLoad_reexport_always(i) ==
    LET inv == invocation[i]
    IN  /\ inv.pc = "read" /\ inv.op = "grant_access"
        /\ \E defined \in {_get_defined_exports(environment, exports_file)} :
             \E read \in {Logged([inv EXCEPT !.loaded = defined.value],
                                 <<"open">>)} :
                IF defined.raised # "none"
                THEN invocation' = [invocation EXCEPT ![i] = Failed(read, defined.raised)]
                ELSE \E added \in {add_client(defined.value,
                                               export_point_of(inv.export_name),
                                               inv.host, inv.options)} :
                       \E order \in TableOrders(added.value) :
                          invocation' = [invocation EXCEPT ![i] =
                             Reexporting([read EXCEPT !.raised = added.raised],
                                         added.value, order)]
        /\ UNCHANGED <<exports_file, root, sighups, environment>>
        /\ UNCHANGED table_vars
        /\ UNCHANGED system_vars

\* grant_access: _get_defined_exports, exports.add_client, and _reexport up
\* to the elevation of privileges
GrantLoad(i) ==
    LET inv == invocation[i]
    IN  /\ inv.pc = "read" /\ inv.op = "grant_access"
        /\ \E defined \in {_get_defined_exports(environment, exports_file)} :
             \E read \in {Logged([inv EXCEPT !.loaded = defined.value],
                                 <<"open">>)} :
                IF defined.raised # "none"
                THEN invocation' = [invocation EXCEPT ![i] = Failed(read, defined.raised)]
                ELSE \E added \in {add_client(defined.value,
                                               export_point_of(inv.export_name),
                                               inv.host, inv.options)} :
                       IF added.raised # "none"
                       THEN invocation' = [invocation EXCEPT ![i] =
                                             Failed(read, added.raised)]
                       ELSE \E order \in TableOrders(added.value) :
                               invocation' = [invocation EXCEPT ![i] =
                                                 Reexporting(read, added.value, order)]
        /\ UNCHANGED <<exports_file, root, sighups, environment>>
        /\ UNCHANGED table_vars
        /\ UNCHANGED system_vars

\* revoke_access: _get_defined_exports, exports.remove_client, and _reexport
\* up to the elevation of privileges
RevokeLoad(i) ==
    LET inv == invocation[i]
    IN  /\ inv.pc = "read" /\ inv.op = "revoke_access"
        /\ \E defined \in {_get_defined_exports(environment, exports_file)} :
             \E read \in {Logged([inv EXCEPT !.loaded = defined.value],
                                 <<"open">>)} :
                IF defined.raised # "none"
                THEN invocation' = [invocation EXCEPT ![i] = Failed(read, defined.raised)]
                ELSE \E removed \in {remove_client(defined.value,
                                                   export_point_of(inv.export_name),
                                                   inv.host)} :
                       IF removed.raised # "none"
                       THEN invocation' = [invocation EXCEPT ![i] =
                                             Failed(read, removed.raised)]
                       ELSE \E order \in TableOrders(removed.value) :
                               invocation' = [invocation EXCEPT ![i] =
                                                 Reexporting(read, removed.value, order)]
        /\ UNCHANGED <<exports_file, root, sighups, environment>>
        /\ UNCHANGED table_vars
        /\ UNCHANGED system_vars

\* _reexport: utils.safe_write(serialized_exports, exports_file) with
\* elevated privileges: the text goes to a temporary file in the directory of
\* the exports file, which is then renamed over it
ReexportWrite(i) ==
    LET inv == invocation[i]
    IN  /\ inv.pc = "safe_write"
        /\ exports_file' = inv.serialized_exports
        /\ environment' = [environment EXCEPT !.paths = @ \cup {ExportsFilePath}]
        /\ invocation' = [invocation EXCEPT ![i] =
              [Logged(inv, <<"elevated_privileges", "NamedTemporaryFile", "chmod",
                             "write", "flush", "fsync", "rename", "fsync_path">>)
                  EXCEPT !.pc = "kill"]]
        /\ UNCHANGED <<root, sighups>>
        /\ UNCHANGED table_vars
        /\ UNCHANGED system_vars

\* _reexport: os.kill(pid, signal.SIGHUP) for each pid found, then the
\* privileges are dropped
ReexportKill(i) ==
    LET inv == invocation[i]
    IN  /\ inv.pc = "kill"
        /\ sighups' = sighups \o inv.sfused_pids
        /\ invocation' = [invocation EXCEPT ![i] =
              [Logged(inv, [k \in DOMAIN inv.sfused_pids |-> "kill"]
                               \o <<"drop_privileges">>)
                  EXCEPT !.pc = "done"]]
        /\ UNCHANGED <<exports_file, root, environment>>
        /\ UNCHANGED table_vars
        /\ UNCHANGED system_vars

\* the escape of a character in a JSON string
json_escape(c) ==
    IF c = "\"" THEN <<"\\", "\"">>
    ELSE IF c = "\\" THEN <<"\\", "\\">>
    ELSE IF c = "\n" THEN <<"\\", "n">>
    ELSE IF c = "\t" THEN <<"\\", "t">>
    ELSE <<c>>

RECURSIVE json_string(_)
\* json.dumps of a string
json_string(s) ==
    IF s = <<>> THEN <<"\"", "\"">>
    ELSE LET n == Len(s)
             before == json_string(SubSeq(s, 1, n - 1))
         IN  SubSeq(before, 1, Len(before) - 1) \o json_escape(s[n]) \o <<"\"">>

\* json.dumps of a dict of lists of strings, the keys in the given order
json_dumps(clients, hosts) ==
    <<"{">>
    \o join(<<",", " ">>,
            [k \in DOMAIN hosts |->
                json_string(hosts[k]) \o <<":", " ", "[">>
                \o join(<<",", " ">>,
                        [j \in DOMAIN clients[hosts[k]] |->
                            json_string(clients[hosts[k]][j])])
                \o <<"]">>])
    \o <<"}">>

\* get_export: _get_defined_exports and, for an export point of the table,
\* the dict of its clients with list(permissions), as JSON
GetLoad(i) ==
    LET inv == invocation[i]
    IN  /\ inv.pc = "read" /\ inv.op = "get_export"
        /\ \E defined \in {_get_defined_exports(environment, exports_file)} :
             \E read \in {Logged([inv EXCEPT !.loaded = defined.value],
                                 <<"open">>)} :
             \E export_point \in {export_point_of(inv.export_name)} :
                IF defined.raised # "none"
                THEN invocation' = [invocation EXCEPT ![i] = Failed(read, defined.raised)]
                ELSE IF export_point \in DOMAIN defined.value
                THEN \E clients \in ClientLists(defined.value[export_point]) :
                       \E hosts \in Orderings(DOMAIN clients) :
                          invocation' = [invocation EXCEPT ![i] =
                             [read EXCEPT !.pc = "done", !.result = clients,
                                          !.output = json_dumps(clients, hosts)]]
                ELSE invocation' = [invocation EXCEPT ![i] =
                                       [read EXCEPT !.pc = "listdir"]]
        /\ UNCHANGED <<exports_file, root, sighups, environment>>
        /\ UNCHANGED table_vars
        /\ UNCHANGED system_vars

\* get_export that gives the empty dict without looking for the directory
GetList_always_empty(i) ==
    LET inv == invocation[i]
        listed == Logged([inv EXCEPT !.listing = root],
                         Enter \o <<"listdir">> \o Leave)
    IN  /\ inv.pc = "listdir" /\ inv.op = "get_export"
        /\ invocation' = [invocation EXCEPT ![i] =
              [listed EXCEPT !.pc = "done", !.result = EmptyDict,
                             !.output = json_dumps(EmptyDict, <<>>)]]
        /\ UNCHANGED <<exports_file, root, sighups, environment>>
        /\ UNCHANGED table_vars
        /\ UNCHANGED system_vars

\* get_export: export_name in _get_export_points(root_export) for an export
\* point that is not in the table
GetList(i) ==
    LET inv == invocation[i]
        listed == Logged([inv EXCEPT !.listing = root],
                         Enter \o <<"listdir">> \o Leave)
    IN  /\ inv.pc = "listdir" /\ inv.op = "get_export"
        /\ invocation' = [invocation EXCEPT ![i] =
              IF inv.export_name \in root
              THEN [listed EXCEPT !.pc = "done", !.result = EmptyDict,
                                  !.output = json_dumps(EmptyDict, <<>>)]
              ELSE Failed(listed, "ExportNotFoundException")]
        /\ UNCHANGED <<exports_file, root, sighups, environment>>
        /\ UNCHANGED table_vars
        /\ UNCHANGED system_vars

NextHelper ==
    \E i \in 1..MaxInvocations :
        \/ Invoke(i)
        \/ AddExportExists(i)
        \/ AddExportMkdir(i)
        \/ WipeLoad(i)
        \/ WipeList(i)
        \/ WipeRename(i)
        \/ GrantList(i)
        \/ GrantLoad(i)
        \/ RevokeLoad(i)
        \/ ReexportWrite(i)
        \/ ReexportKill(i)
        \/ GetLoad(i)
        \/ GetList(i)

SpecHelper == InitHelper /\ [][NextHelper]_vars

\* the EXIT_CODE attribute of the exception classes; 0 where the class has
\* none
EXIT_CODE(exception) ==
    IF exception = "ExportNotFoundException" THEN 10
    ELSE IF exception = "ClientExistsException" THEN 11
    ELSE IF exception = "ClientNotFoundException" THEN 12
    ELSE IF exception = "ExportHasGrantsException" THEN 13
    ELSE IF exception = "ExportAlreadyExists" THEN 14
    ELSE 0

\* main: exit_code = getattr(e, 'EXIT_CODE', 1) for the exception a helper
\* function raised
exit_code(exception) ==
    IF EXIT_CODE(exception) # 0 THEN EXIT_CODE(exception) ELSE 1

\* the environment in which verify_environment returns, with two sfused
ReadyEnvironment ==
    [paths |-> {ExportsFilePath}, binaries |-> {"rpcbind", "sfused"},
     pids |-> [b \in {"rpcbind", "sfused"} |->
                   IF b = "sfused" THEN <<100, 101>> ELSE <<1>>]]

\* exports files with two lines for the same export point
DuplicateFiles ==
    {ShortPoint \o <<" ">> \o HostNetwork \o <<"(", "r", "w", ")", "\n">>
        \o ShortPoint \o <<" ">> \o HostIp \o <<"\n">>,
     ShortPoint \o <<" ">> \o HostNetwork \o <<"\n">>
        \o <<"/">> \o OtherName \o <<" ">> \o HostIp \o <<"\n">>
        \o ShortPoint \o <<" ">> \o HostName \o <<"(", "r", "w", ")", "\n">>}

\* the calls made on such a file
DuplicateCalls ==
    {[op |-> "grant_access", export_name |-> n, host |-> HostName,
      options |-> [is_none |-> FALSE, items |-> <<OptionRw>>]] :
        n \in {ExportName, OtherName}}
    \cup {[op |-> "revoke_access", export_name |-> ExportName, host |-> h,
           options |-> NoneOptions] : h \in {HostName, HostIp}}
    \cup {[op |-> "get_export", export_name |-> ExportName, host |-> <<>>,
           options |-> NoneOptions]}

InitDuplicates ==
    /\ NoScenario
    /\ NoSystem
    /\ exports_file \in DuplicateFiles
    /\ root = {ExportName, OtherName}
    /\ sighups = <<>>
    /\ environment = ReadyEnvironment
    /\ invocation = [i \in 1..MaxInvocations |-> Idle]

NextDuplicates ==
    \E i \in 1..MaxInvocations :
        \/ Invoking(i, DuplicateCalls, {"keywords"})
        \/ GrantList(i)
        \/ GrantLoad(i)
        \/ RevokeLoad(i)
        \/ ReexportWrite(i)
        \/ ReexportKill(i)
        \/ GetLoad(i)
        \/ GetList(i)

SpecDuplicates == InitDuplicates /\ [][NextDuplicates]_vars

\* host names that grant_access may be given: with a hyphen, with a capital
HyphenHost == <<"d", "b", "-", "1">>

CapitalHost == <<"H", "o", "s", "t">>

\* grant_access with such hosts on an export that has a directory, and
\* get_export after it
GrantCalls ==
    {[op |-> "grant_access", export_name |-> ExportName, host |-> h, options |-> o] :
        h \in {HostName, HyphenHost, CapitalHost},
        o \in {NoneOptions, [is_none |-> FALSE, items |-> <<OptionRw>>]}}
    \cup {[op |-> "get_export", export_name |-> ExportName, host |-> <<>>,
           options |-> NoneOptions]}

InitGrants ==
    /\ NoScenario
    /\ NoSystem
    /\ exports_file = <<>>
    /\ root \in {{ExportName}, {ExportName, OtherName}}
    /\ sighups = <<>>
    /\ environment = ReadyEnvironment
    /\ invocation = [i \in 1..MaxInvocations |-> Idle]

NextGrants ==
    \E i \in 1..MaxInvocations :
        \/ Invoking(i, GrantCalls, {"keywords"})
        \/ GrantList(i)
        \/ GrantLoad(i)
        \/ ReexportWrite(i)
        \/ ReexportKill(i)
        \/ GetLoad(i)
        \/ GetList(i)

SpecGrants == InitGrants /\ [][NextGrants]_vars

(***************************************************************************)
(* utils.elevated_privileges: the effective ids of the process and the     *)
(* scopes it has entered, the innermost last.  The calls that acquire,     *)
(* os.seteuid(0) and os.setegid(0), may raise OSError; the body may raise. *)
(***************************************************************************)
\* the effective uid and gid of root
Superuser == 0

\* the effective uid and gid of the user the program runs as
Unprivileged == 1000

\* how deep the scopes of elevated_privileges are nested
MaxDepth == 3

\* the innermost scope
Innermost == privileges.scopes[Len(privileges.scopes)]

\* the scopes with the innermost at another position
At(position) ==
    [privileges.scopes EXCEPT ![Len(privileges.scopes)].pc = position]

\* the scopes without the innermost
Outer == SubSeq(privileges.scopes, 1, Len(privileges.scopes) - 1)

InitPrivileges ==
    /\ NoScenario
    /\ NoInvocation
    /\ privileges \in [euid : {Superuser, Unprivileged},
                       egid : {Superuser, Unprivileged},
                       scopes : {<<>>}, raising : {"none"}]
    /\ temporary = EmptyDict
    /\ observed = <<"unread">>
    /\ visible_to = EmptyDict
    /\ spawned = 0

\* with utils.elevated_privileges(): previous_uid = os.geteuid(),
\* previous_gid = os.getegid()
EnterScope ==
    /\ privileges.raising = "none"
    /\ IF privileges.scopes = <<>> THEN TRUE ELSE Innermost.pc = "body"
    /\ Len(privileges.scopes) < MaxDepth
    /\ privileges' = [privileges EXCEPT !.scopes =
          Append(@, [previous_uid |-> privileges.euid,
                     previous_gid |-> privileges.egid, pc |-> "seteuid"])]
    /\ UNCHANGED <<temporary, observed, visible_to, spawned>>
    /\ UNCHANGED table_vars
    /\ UNCHANGED helper_vars

\* os.seteuid(0); when it raises nothing has been changed and the scope is
\* left
Seteuid ==
    /\ privileges.scopes # <<>> /\ Innermost.pc = "seteuid"
    /\ \/ privileges' = [privileges EXCEPT !.euid = Superuser,
                                           !.scopes = At("setegid")]
       \/ privileges' = [privileges EXCEPT !.scopes = Outer,
                                           !.raising = "OSError"]
    /\ UNCHANGED <<temporary, observed, visible_to, spawned>>
    /\ UNCHANGED table_vars
    /\ UNCHANGED helper_vars

\* try: os.setegid(0)
Setegid ==
    /\ privileges.scopes # <<>> /\ Innermost.pc = "setegid"
    /\ \/ privileges' = [privileges EXCEPT !.egid = Superuser,
                                           !.scopes = At("body")]
       \/ privileges' = [privileges EXCEPT !.scopes = At("except")]
    /\ UNCHANGED <<temporary, observed, visible_to, spawned>>
    /\ UNCHANGED table_vars
    /\ UNCHANGED helper_vars

\* except OSError: os.setegid(previous_gid); raise
SetegidFailed ==
    /\ privileges.scopes # <<>> /\ Innermost.pc = "except"
    /\ privileges' = [privileges EXCEPT !.egid = Innermost.previous_gid,
                                        !.scopes = Outer,
                                        !.raising = "OSError"]
    /\ UNCHANGED <<temporary, observed, visible_to, spawned>>
    /\ UNCHANGED table_vars
    /\ UNCHANGED helper_vars

\* the body after the yield returns, raises, or a scope inside it raised
BodyEnds ==
    /\ privileges.scopes # <<>> /\ Innermost.pc = "body"
    /\ \/ privileges' = [privileges EXCEPT !.scopes = At("finally")]
       \/ /\ privileges.raising = "none"
          /\ privileges' = [privileges EXCEPT !.scopes = At("finally"),
                                              !.raising = "Exception"]
    /\ UNCHANGED <<temporary, observed, visible_to, spawned>>
    /\ UNCHANGED table_vars
    /\ UNCHANGED helper_vars

\* finally: try: os.setegid(previous_gid)
RestoreEgid ==
    /\ privileges.scopes # <<>> /\ Innermost.pc = "finally"
    /\ privileges' = [privileges EXCEPT !.egid = Innermost.previous_gid,
                                        !.scopes = At("seteuid_previous")]
    /\ UNCHANGED <<temporary, observed, visible_to, spawned>>
    /\ UNCHANGED table_vars
    /\ UNCHANGED helper_vars

\* finally: os.seteuid(previous_uid), and the scope is left
RestoreEuid ==
    /\ privileges.scopes # <<>> /\ Innermost.pc = "seteuid_previous"
    /\ privileges' = [privileges EXCEPT !.euid = Innermost.previous_uid,
                                        !.scopes = Outer]
    /\ UNCHANGED <<temporary, observed, visible_to, spawned>>
    /\ UNCHANGED table_vars
    /\ UNCHANGED helper_vars

NextPrivileges ==
    \/ EnterScope
    \/ Seteuid
    \/ Setegid
    \/ SetegidFailed
    \/ BodyEnds
    \/ RestoreEgid
    \/ RestoreEuid

SpecPrivileges == InitPrivileges /\ [][NextPrivileges]_vars

(***************************************************************************)
(* _reexport step by step: utils.safe_write writes a temporary file and    *)
(* renames it over the exports file, fsync_path syncs the directory, then  *)
(* each pid that find_pids returned is sent SIGHUP.  Every system call may *)
(* raise; sfused instances start and exit on their own; another process    *)
(* reads the exports file.                                                 *)
(***************************************************************************)
\* the exports file before the first call: '/p1 1.2.3.0/24(rw)\n'
PreviousFile ==
    ShortPoint \o <<" ">> \o HostNetwork \o <<"(", "r", "w", ")", "\n">>

\* the calls that re-export
ReexportCalls ==
    {[op |-> "grant_access", export_name |-> ExportName, host |-> HostName,
      options |-> [is_none |-> FALSE, items |-> <<OptionRw>>]],
     [op |-> "revoke_access", export_name |-> ExportName, host |-> HostNetwork,
      options |-> NoneOptions]}

\* the number of invocations that re-export, which may overlap
MaxWriters == 2

\* the number of sfused instances that start while the invocations run
MaxSpawned == 1

\* safe_write up to the rename: what it does to the temporary file, in order
TemporarySteps == <<"NamedTemporaryFile", "chmod", "write", "flush", "fsync">>

\* the number of os.kill calls the invocation has made
Killed(inv) == Cardinality({k \in DOMAIN inv.events : inv.events[k] = "kill"})

\* the sfused instances that are running
RunningSfused == Range(environment.pids["sfused"])

\* the instances that have not been signalled since the file an invocation
\* renamed became visible, without this one
WithoutPid(pid) == [j \in DOMAIN visible_to |-> visible_to[j] \ {pid}]

InitReexport ==
    /\ NoScenario
    /\ NoSystem
    /\ exports_file = PreviousFile
    /\ root = {ExportName}
    /\ sighups = <<>>
    /\ environment = ReadyEnvironment
    /\ invocation = [i \in 1..MaxWriters |-> Idle]

\* safe_write that writes the text to the target itself: open(path, 'w')
\* truncates it, write and fsync fill it
SafeWriteTemporary_in_place(i) ==
    LET inv == invocation[i]
    IN  /\ inv.pc \in {"safe_write", "truncated"}
        /\ IF inv.pc = "safe_write"
           THEN /\ exports_file' = <<>>
                /\ invocation' = [invocation EXCEPT ![i] =
                      [Logged(inv, <<"elevated_privileges", "open">>)
                          EXCEPT !.pc = "truncated"]]
           ELSE /\ exports_file' = inv.serialized_exports
                /\ invocation' = [invocation EXCEPT ![i] =
                      [Logged(inv, <<"chmod", "write", "flush", "fsync">>)
                          EXCEPT !.pc = "fsync_path"]]
        /\ visible_to' = IF inv.pc = "safe_write" THEN visible_to
                         ELSE DictSet(visible_to, i, RunningSfused)
        /\ UNCHANGED <<root, sighups, environment>>
        /\ UNCHANGED <<privileges, temporary, observed, spawned>>
        /\ UNCHANGED table_vars

\* _reexport: with elevated privileges, utils.safe_write up to the rename:
\* NamedTemporaryFile(dir=target_dir, delete=False), os.chmod, write, flush,
\* os.fsync; the first of them that raises ends the call
SafeWriteTemporary(i) ==
    LET inv == invocation[i]
    IN  /\ inv.pc = "safe_write"
        /\ \E n \in 0..Len(TemporarySteps) :
             \E entered \in {Logged(inv, <<"elevated_privileges">>
                                         \o SubSeq(TemporarySteps, 1, n))} :
                /\ invocation' = [invocation EXCEPT ![i] =
                      IF n = Len(TemporarySteps)
                      THEN [entered EXCEPT !.pc = "rename"]
                      ELSE Failed(Logged(entered, <<"drop_privileges">>), "OSError")]
                /\ temporary' =
                      IF n = 0 THEN temporary
                      ELSE IF "write" \in Range(SubSeq(TemporarySteps, 1, n))
                      THEN DictSet(temporary, i, inv.serialized_exports)
                      ELSE DictSet(temporary, i, <<>>)
        /\ UNCHANGED <<exports_file, root, sighups, environment>>
        /\ UNCHANGED <<privileges, observed, visible_to, spawned>>
        /\ UNCHANGED table_vars

\* safe_write that does not sync the directory after the rename
SafeWriteRename_unsynced(i) ==
    LET inv == invocation[i]
    IN  /\ inv.pc = "rename"
        /\ exports_file' = temporary[i]
        /\ temporary' = DictDel(temporary, i)
        /\ visible_to' = DictSet(visible_to, i, RunningSfused)
        /\ invocation' = [invocation EXCEPT ![i] =
              [Logged(inv, <<"rename">>) EXCEPT !.pc = "kill"]]
        /\ UNCHANGED <<root, sighups, environment>>
        /\ UNCHANGED <<privileges, observed, spawned>>
        /\ UNCHANGED table_vars

\* safe_write: os.rename(f.name, path); from here on the file at the path of
\* the exports file is the temporary file
SafeWriteRename(i) ==
    LET inv == invocation[i]
    IN  /\ inv.pc = "rename"
        /\ \/ /\ exports_file' = temporary[i]
              /\ temporary' = DictDel(temporary, i)
              /\ visible_to' = DictSet(visible_to, i, RunningSfused)
              /\ invocation' = [invocation EXCEPT ![i] =
                    [Logged(inv, <<"rename">>) EXCEPT !.pc = "fsync_path"]]
           \/ /\ invocation' = [invocation EXCEPT ![i] =
                    Failed(Logged(inv, <<"drop_privileges">>), "OSError")]
              /\ UNCHANGED <<exports_file, temporary, visible_to>>
        /\ UNCHANGED <<root, sighups, environment>>
        /\ UNCHANGED <<privileges, observed, spawned>>
        /\ UNCHANGED table_vars

\* safe_write: fsync_path(target_dir), which opens and syncs the directory
FsyncPath(i) ==
    LET inv == invocation[i]
    IN  /\ inv.pc = "fsync_path"
        /\ \/ invocation' = [invocation EXCEPT ![i] =
                 [Logged(inv, <<"fsync_path">>) EXCEPT !.pc = "kill"]]
           \/ invocation' = [invocation EXCEPT ![i] =
                 Failed(Logged(inv, <<"drop_privileges">>), "OSError")]
        /\ UNCHANGED <<exports_file, root, sighups, environment>>
        /\ UNCHANGED system_vars
        /\ UNCHANGED table_vars

\* _reexport: os.kill(pid, signal.SIGHUP) for the next pid of sfused_pids,
\* which raises when no process has that pid; after the last pid the
\* privileges are dropped and the call returns
Kill(i) ==
    LET inv == invocation[i]
    IN  /\ inv.pc = "kill"
        /\ IF Killed(inv) = Len(inv.sfused_pids)
           THEN /\ invocation' = [invocation EXCEPT ![i] =
                      [Logged(inv, <<"drop_privileges">>) EXCEPT !.pc = "done"]]
                /\ UNCHANGED <<sighups, visible_to>>
           ELSE \E pid \in {inv.sfused_pids[Killed(inv) + 1]} :
                  IF pid \in RunningSfused
                  THEN /\ sighups' = Append(sighups, pid)
                       /\ visible_to' = WithoutPid(pid)
                       /\ invocation' = [invocation EXCEPT ![i] =
                             Logged(inv, <<"kill">>)]
                  ELSE /\ invocation' = [invocation EXCEPT ![i] =
                             Failed(Logged(inv, <<"kill", "drop_privileges">>),
                                    "OSError(ESRCH)")]
                       /\ UNCHANGED <<sighups, visible_to>>
        /\ UNCHANGED <<exports_file, root, environment>>
        /\ UNCHANGED <<privileges, temporary, observed, spawned>>
        /\ UNCHANGED table_vars

\* an sfused instance starts and reads the exports file it was given
SfusedStarts ==
    /\ spawned < MaxSpawned
    /\ spawned' = spawned + 1
    /\ environment' = [environment EXCEPT
          !.pids["sfused"] = Append(@, 200 + spawned)]
    /\ UNCHANGED <<exports_file, root, sighups, invocation>>
    /\ UNCHANGED <<privileges, temporary, observed, visible_to>>
    /\ UNCHANGED table_vars

\* an sfused instance exits
SfusedExits ==
    \E k \in DOMAIN environment.pids["sfused"] :
        /\ environment' = [environment EXCEPT !.pids["sfused"] =
              SubSeq(@, 1, k - 1) \o SubSeq(@, k + 1, Len(@))]
        /\ visible_to' = WithoutPid(environment.pids["sfused"][k])
        /\ UNCHANGED <<exports_file, root, sighups, invocation>>
        /\ UNCHANGED <<privileges, temporary, observed, spawned>>
        /\ UNCHANGED table_vars

\* another process opens the exports file and reads it to the end
ReadExports ==
    /\ observed' = exports_file
    /\ UNCHANGED helper_vars
    /\ UNCHANGED <<privileges, temporary, visible_to, spawned>>
    /\ UNCHANGED table_vars

NextReexport ==
    \/ \E i \in 1..MaxWriters :
        \/ Invoking(i, ReexportCalls, {"keywords"})
        \/ GrantList(i)
        \/ GrantLoad(i)
        \/ RevokeLoad(i)
        \/ SafeWriteTemporary(i)
        \/ SafeWriteRename(i)
        \/ FsyncPath(i)
        \/ Kill(i)
    \/ SfusedStarts
    \/ SfusedExits

SpecReexport == InitReexport /\ [][NextReexport]_vars

\* the tables _reexport is called with: the empty one and that of the file
\* '/p1 host(rw)\n'
ReexportTables ==
    {ExportTable_deserialize(readlines(f)).value :
        f \in {<<>>, ShortPoint \o <<" ">> \o HostName \o <<"(", "r", "w", ")", "\n">>}}

\* a call of _reexport(exports_file, exports), up to the elevation of
\* privileges
Reexport(i) ==
    /\ invocation[i].pc = "idle"
    /\ \A j \in 1..(i - 1) : invocation[j].pc # "idle"
    /\ \E exports_table \in ReexportTables :
         \E order \in TableOrders(exports_table) :
            invocation' = [j \in DOMAIN invocation |->
               IF j # i
               THEN [invocation[j] EXCEPT !.overlapped = @ \/ Running(invocation[j])]
               ELSE Reexporting([Idle EXCEPT !.op = "_reexport",
                                             !.overlapped =
                                                 \E k \in DOMAIN invocation :
                                                     Running(invocation[k])],
                                exports_table, order)]
    /\ UNCHANGED <<exports_file, root, sighups, environment>>
    /\ UNCHANGED table_vars
    /\ UNCHANGED system_vars

\* executions of _reexport while the sfused instances stay and another
\* process reads the exports file
NextSafeWrite ==
    \/ \E i \in 1..MaxWriters :
        \/ Reexport(i)
        \/ SafeWriteTemporary(i)
        \/ SafeWriteRename(i)
        \/ FsyncPath(i)
        \/ Kill(i)
    \/ ReadExports

SpecSafeWrite == InitReexport /\ [][NextSafeWrite]_vars

(***************************************************************************)
(* Invocations of add_export, grant_access, revoke_access and wipe_export  *)
(* on one export, from an empty exports file and an empty root; nothing    *)
(* keeps two of them from running at the same time.                        *)
(***************************************************************************)
\* the number of such invocations, which may overlap
MaxRacing == 3

\* the calls on the export p1
RaceCalls ==
    {[op |-> o, export_name |-> ExportName, host |-> <<>>, options |-> NoneOptions] :
        o \in {"add_export", "wipe_export"}}
    \cup {[op |-> "grant_access", export_name |-> ExportName, host |-> HostName,
           options |-> [is_none |-> FALSE, items |-> <<OptionRw>>]],
          [op |-> "grant_access", export_name |-> ExportName, host |-> HostNetwork,
           options |-> NoneOptions],
          [op |-> "revoke_access", export_name |-> ExportName, host |-> HostName,
           options |-> NoneOptions]}

InitRace ==
    /\ NoScenario
    /\ NoSystem
    /\ exports_file = <<>>
    /\ root = {}
    /\ sighups = <<>>
    /\ environment = ReadyEnvironment
    /\ invocation = [i \in 1..MaxRacing |-> Idle]

NextRace ==
    \E i \in 1..MaxRacing :
        \/ Invoking(i, RaceCalls, {"keywords"})
        \/ AddExportExists(i)
        \/ AddExportMkdir(i)
        \/ WipeLoad(i)
        \/ WipeList(i)
        \/ WipeRename(i)
        \/ GrantList(i)
        \/ GrantLoad(i)
        \/ RevokeLoad(i)
        \/ ReexportWrite(i)
        \/ ReexportKill(i)

SpecRace == InitRace /\ [][NextRace]_vars


(***************************************************************************)
(* Properties.                                                             *)
(***************************************************************************)
\* the part of a line before its first '#'
BeforeHash(l) ==
    IF \E i \in 1..Len(l) : l[i] = "#"
    THEN SubSeq(l, 1, (CHOOSE i \in 1..Len(l) :
                          l[i] = "#" /\ \A j \in 1..(i - 1) : l[j] # "#") - 1)
    ELSE l

AllWhitespace(l) == \A i \in 1..Len(l) : l[i] \in Whitespace

\* the grants of a table: (export point, host, options)
TableGrants(t) ==
    UNION {{<<p, h, t[p].clients[h]>> : h \in DOMAIN t[p].clients} : p \in DOMAIN t}

\* set(options) of the last call, the empty set for options=None
CallOptions(c) == IF c.options.is_none THEN {} ELSE Range(c.options.items)

\* C1: a table constructed from valid exports, serialized in any iteration
\* order, split into lines and deserialized, is the table again; the empty
\* table included.
TableRoundTrip ==
    (pc = "table_done" /\ origin = "constructed")
        => loaded = [raised |-> "none", value |-> exports]

TableRoundTripWitness ==
    /\ pc = "table_done" /\ origin = "constructed"
    /\ Cardinality(DOMAIN exports) = 2
    /\ Len(content) = 2
    /\ loaded.value = exports

\* C2: a valid Export, serialized in any order of its clients and options and
\* deserialized, is the Export again, whether the export point is padded to
\* column 32 or longer than the field.
ExportRoundTrip ==
    (pc = "export_done" /\ origin = "constructed")
        => parsed = [raised |-> "none", value |-> export]

ExportRoundTripWitness ==
    /\ pc = "export_done" /\ origin = "constructed"
    /\ Cardinality(DOMAIN export.clients) >= 2
    /\ \E h \in DOMAIN export.clients : Cardinality(export.clients[h]) >= 2
    /\ Len(export.export_point) < PadWidth
    /\ parsed.value = export

\* C3: add_client for a host that already has a grant on the export point
\* raises ClientExistsException and leaves the table as it was.
AddClientExisting ==
    [][(/\ call'.op = "add_client"
        /\ call'.export_point \in DOMAIN exports
        /\ call'.host \in DOMAIN exports[call'.export_point].clients)
       => (outcome' = "ClientExistsException" /\ exports' = exports)]_vars

AddClientExistingWitness ==
    /\ call.op = "add_client"
    /\ outcome = "ClientExistsException"
    /\ call.export_point \in DOMAIN exports
    /\ call.host \in DOMAIN exports[call.export_point].clients
    /\ exports[call.export_point].clients[call.host] # CallOptions(call)

\* C4: a successful add_client adds exactly the grant host -> set(options) to
\* the export point, creating the export point when it was absent, and
\* changes no other host and no other export point.
AddClientFrame ==
    [][(call'.op = "add_client" /\ outcome' = "none")
       => LET p == call'.export_point
              before == IF p \in DOMAIN exports
                        THEN DOMAIN exports[p].clients ELSE {}
          IN  /\ DOMAIN exports' = DOMAIN exports \cup {p}
              /\ \A q \in DOMAIN exports : q # p => exports'[q] = exports[q]
              /\ exports'[p].export_point = p
              /\ call'.host \notin before
              /\ DOMAIN exports'[p].clients = before \cup {call'.host}
              /\ exports'[p].clients[call'.host] = CallOptions(call')
              /\ \A h \in before :
                    exports'[p].clients[h] = exports[p].clients[h]]_vars

AddClientFrameWitness ==
    /\ call.op = "add_client" /\ outcome = "none"
    /\ ~call.options.is_none
    /\ Cardinality(DOMAIN exports[call.export_point].clients) >= 2

\* C5: a successful remove_client deletes the export point when the host was
\* its last client and otherwise keeps it with the client map minus the host;
\* no other host and no other export point changes.
RemoveClientFrame ==
    [][(call'.op = "remove_client" /\ outcome' = "none")
       => LET p == call'.export_point
          IN  /\ p \in DOMAIN exports
              /\ call'.host \in DOMAIN exports[p].clients
              /\ \A q \in DOMAIN exports : q # p =>
                    q \in DOMAIN exports' /\ exports'[q] = exports[q]
              /\ IF DOMAIN exports[p].clients = {call'.host}
                 THEN DOMAIN exports' = DOMAIN exports \ {p}
                 ELSE /\ DOMAIN exports' = DOMAIN exports
                      /\ exports'[p].export_point = p
                      /\ DOMAIN exports'[p].clients =
                            DOMAIN exports[p].clients \ {call'.host}
                      /\ \A h \in DOMAIN exports'[p].clients :
                            exports'[p].clients[h] = exports[p].clients[h]]_vars

RemoveClientFrameWitness ==
    /\ call.op = "remove_client" /\ outcome = "none"
    /\ call.export_point \in DOMAIN exports
    /\ Cardinality(DOMAIN exports) = 2

\* C6: remove_client raises ExportNotFoundException for an export point that
\* is not in the table and ClientNotFoundException for a host without a grant
\* on an export point that is; the table is unchanged in both cases.
RemoveClientMissing ==
    [][(call'.op = "remove_client")
       => /\ call'.export_point \notin DOMAIN exports
                => (outcome' = "ExportNotFoundException" /\ exports' = exports)
          /\ (/\ call'.export_point \in DOMAIN exports
              /\ call'.host \notin DOMAIN exports[call'.export_point].clients)
                => (outcome' = "ClientNotFoundException" /\ exports' = exports)]_vars

RemoveClientMissingWitness ==
    /\ call.op = "remove_client"
    /\ outcome = "ClientNotFoundException"
    /\ call.export_point \in DOMAIN exports
    /\ call.host \notin DOMAIN exports[call.export_point].clients

\* C7: every export point of the table maps to an Export that has at least
\* one client and whose export_point is its key.
ExportsNonEmpty ==
    \A p \in DOMAIN exports :
        /\ DOMAIN exports[p].clients # {}
        /\ exports[p].export_point = p

ExportsNonEmptyWitness ==
    /\ origin = "deserialized"
    /\ call.op = "remove_client" /\ outcome = "none"
    /\ call.export_point \notin DOMAIN exports
    /\ DOMAIN exports # {}

RECURSIVE StripThenParse(_)
StripThenParse(lines) ==
    IF lines = <<>> THEN NoTable
    ELSE LET n == Len(lines)
             rest == BeforeHash(lines[n])
             before == StripThenParse(SubSeq(lines, 1, n - 1))
             e == Export_deserialize(rest)
         IN  IF before.raised # "none" THEN before
             ELSE IF AllWhitespace(rest) THEN before
             ELSE IF e.raised # "none" THEN RaisedTable(e.raised)
             ELSE [raised |-> "none",
                   value |-> DictSet(before.value, e.value.export_point, e.value)]

\* C9: ExportTable.deserialize gives what removing everything from the first
\* '#' of each line, dropping the lines that are then empty or whitespace,
\* and parsing the rest gives; a line parses as its part before the '#'.
CommentsStripped ==
    (pc = "table_done" /\ origin = "input")
        => /\ loaded = StripThenParse(content)
           /\ \A i \in 1..Len(content) :
                 /\ AllWhitespace(BeforeHash(content[i]))
                       => ExportTable_deserialize(<<content[i]>>) = NoTable
                 /\ ExportTable_deserialize(<<content[i]>>)
                       = ExportTable_deserialize(<<BeforeHash(content[i])>>)

CommentsStrippedWitness ==
    /\ pc = "table_done" /\ origin = "input"
    /\ loaded.raised = "none"
    /\ \E i \in 1..Len(content) :
          /\ "#" \in Range(content[i])
          /\ ~AllWhitespace(BeforeHash(content[i]))
    /\ \E i \in 1..Len(content) :
          /\ "#" \in Range(content[i])
          /\ content[i][1] # "#"
          /\ AllWhitespace(BeforeHash(content[i]))
    /\ Cardinality(DOMAIN loaded.value) = 1

\* the characters the host part of a client is made of
ClientHostChars ==
    {"a", "b", "c", "d", "e", "f", "g", "h", "i", "j", "k", "l", "m", "n",
     "o", "p", "q", "r", "s", "t", "u", "v", "w", "x", "y", "z", "0", "1",
     "2", "3", "4", "5", "6", "7", "8", "9", "*", ".", "-", "/"}

\* a token of the form host or host(options)
HostOrHostOptions(token) ==
    \E n \in 1..Len(token) :
        /\ \A i \in 1..n : token[i] \in ClientHostChars
        /\ \/ n = Len(token)
           \/ /\ token[n + 1] = "("
              /\ token[Len(token)] = ")"
              /\ Len(token) >= n + 3

\* C10: Export.deserialize raises DeserializationException for a line of
\* fewer than two tokens or with a client token that is not host or
\* host(options); ExportTable.deserialize raises it, and returns no table,
\* when any line that is not blank fails to parse.
MalformedRejected ==
    /\ pc = "export_done" =>
          ((\/ Len(split(line)) < 2
            \/ \E i \in 2..Len(split(line)) : ~HostOrHostOptions(split(line)[i]))
              => parsed = Raised("DeserializationException"))
    /\ pc = "table_done" =>
          ((\E i \in 1..Len(content) :
                /\ ~AllWhitespace(BeforeHash(content[i]))
                /\ Export_deserialize(BeforeHash(content[i])).raised # "none")
              => loaded = RaisedTable("DeserializationException"))

MalformedRejectedWitness ==
    /\ pc = "table_done"
    /\ Len(content) = 2
    /\ ~AllWhitespace(BeforeHash(content[1]))
    /\ Export_deserialize(BeforeHash(content[1])).raised = "none"
    /\ ~AllWhitespace(BeforeHash(content[2]))
    /\ Len(split(BeforeHash(content[2]))) >= 2
    /\ Export_deserialize(BeforeHash(content[2])).raised # "none"
    /\ loaded = RaisedTable("DeserializationException")

\* a line without an export point: its first token is a parenthesized option
\* group, alone or after a host
NoExportPoint(l) ==
    /\ split(l) # <<>>
    /\ LET first == split(l)[1]
       IN  \E i \in 1..(Len(first) - 2) :
               first[i] = "(" /\ first[Len(first)] = ")"

\* C11: Export.deserialize raises DeserializationException for each line the
\* test lists as invalid, taken on its own, and for every line whose first
\* token is a client with an option group or an option group.
InvalidLinesRejected ==
    (pc = "export_done" /\ (line \in invalid_lines \/ NoExportPoint(line)))
        => parsed = Raised("DeserializationException")

\* the host and the options of the client of ExportLineDash
DashHost == <<"d", "b", "-", "1", ".", "l", "o", "c", "a", "l">>

\* C12: a line of two or more tokens is accepted exactly when each client
\* token is a non-empty run of a-z, 0-9, '*', '.', '-', '/' that a
\* parenthesized option list may follow; a token without parentheses gives
\* the empty option set, and 'db-1.local(rw)' gives db-1.local -> {rw}.
ClientTokensAccepted ==
    (pc = "export_done" /\ Len(split(line)) >= 2)
        => LET tokens == Tail(split(line))
           IN  /\ parsed.raised = "none"
                     <=> \A i \in 1..Len(tokens) : HostOrHostOptions(tokens[i])
               /\ parsed.raised = "none"
                     => \A i \in 1..Len(tokens) :
                           "(" \notin Range(tokens[i])
                               => /\ tokens[i] \in DOMAIN parsed.value.clients
                                  /\ parsed.value.clients[tokens[i]] = {}
               /\ line = ExportLineDash
                     => /\ parsed.raised = "none"
                        /\ DOMAIN parsed.value.clients = {DashHost}
                        /\ parsed.value.clients[DashHost] = {OptionRw}

\* the invocation has done this
Has(inv, event) == \E k \in DOMAIN inv.events : inv.events[k] = event

\* C13: grant_access that finds no directory named export_name under the
\* mounted root fails with ExportNotFoundException without having opened or
\* replaced the exports file; a grant_access that succeeds hands _reexport
\* the table it loaded plus exactly the grant ('/' + export_name,
\* host -> set(options)), every other export point and host as loaded.
GrantAccessAdds ==
    \A i \in DOMAIN invocation :
        LET inv == invocation[i]
            p == <<"/">> \o inv.export_name
            before == IF p \in DOMAIN inv.loaded
                      THEN DOMAIN inv.loaded[p].clients ELSE {}
        IN  inv.op = "grant_access" =>
              /\ (Has(inv, "listdir") /\ inv.export_name \notin inv.listing)
                    => /\ inv.pc = "done"
                       /\ inv.raised = "ExportNotFoundException"
                       /\ ~Has(inv, "open") /\ ~Has(inv, "rename")
              /\ (inv.pc = "done" /\ inv.raised = "none")
                    => /\ inv.export_name \in inv.listing
                       /\ DOMAIN inv.handed = DOMAIN inv.loaded \cup {p}
                       /\ \A q \in DOMAIN inv.loaded :
                             q # p => inv.handed[q] = inv.loaded[q]
                       /\ inv.handed[p].export_point = p
                       /\ inv.host \notin before
                       /\ DOMAIN inv.handed[p].clients = before \cup {inv.host}
                       /\ inv.handed[p].clients[inv.host] = CallOptions(inv)
                       /\ \A h \in before :
                             inv.handed[p].clients[h] = inv.loaded[p].clients[h]

GrantAccessAddsWitness ==
    \E i \in DOMAIN invocation :
        LET inv == invocation[i]
        IN  /\ inv.op = "grant_access" /\ inv.pc = "done" /\ inv.raised = "none"
            /\ Cardinality(DOMAIN inv.loaded) = 2
            /\ Cardinality(DOMAIN inv.handed[<<"/">> \o inv.export_name].clients) = 2
            /\ ~inv.options.is_none

\* invocation i takes the step
Acts(i) ==
    \/ invocation'[i].pc # invocation[i].pc
    \/ invocation'[i].events # invocation[i].events

\* the events that change the exports file, the root or the services
Changes == {"rename", "mkdir", "chmod", "kill"}

\* the failures of grant_access and revoke_access that change nothing
Refusals ==
    {"ExportNotFoundException", "ClientExistsException",
     "ClientNotFoundException", "DeserializationException"}

\* C14: a grant_access or revoke_access that fails with ExportNotFound,
\* ClientExists, ClientNotFound or DeserializationException has not replaced
\* the exports file, changed a directory under the root or sent a SIGHUP:
\* none of its steps changes them, and every change of them is a step of an
\* invocation that goes on to rename, mkdir or kill.
FailedAccessChangesNothing ==
    /\ [](\A i \in DOMAIN invocation :
            (/\ invocation[i].op \in {"grant_access", "revoke_access"}
             /\ invocation[i].raised \in Refusals)
                => /\ invocation[i].pc = "done"
                   /\ \A e \in Changes : ~Has(invocation[i], e))
    /\ [][\A i \in DOMAIN invocation :
            (/\ Acts(i)
             /\ invocation'[i].op \in {"grant_access", "revoke_access"}
             /\ invocation'[i].raised \in Refusals)
                => UNCHANGED <<exports_file, root, sighups>>]_vars
    /\ [][(exports_file' # exports_file \/ root' # root \/ sighups' # sighups)
            => \E i \in DOMAIN invocation :
                  /\ Acts(i)
                  /\ \E k \in DOMAIN invocation'[i].events :
                        /\ k > Len(invocation[i].events)
                        /\ invocation'[i].events[k] \in Changes]_vars

FailedAccessChangesNothingWitness ==
    /\ \E i \in DOMAIN invocation :
          /\ invocation[i].op = "grant_access"
          /\ invocation[i].raised = "ClientExistsException"
    /\ \A i \in DOMAIN invocation : invocation[i].pc = "done"
    /\ exports_file \in InitialFiles
    /\ sighups = <<>>

\* _get_defined_exports returned a table to the invocation
Loaded(inv) ==
    Has(inv, "open") /\ inv.raised \notin {"IOError", "DeserializationException"}

\* C15: wipe_export of an export point that has a grant in the table it
\* loaded fails with ExportHasGrantsException; without a grant and without a
\* directory of that name in the listing it fails with
\* ExportNotFoundException; both leave the root as it is.  Otherwise the
\* rename turns the directory into 'TRASH-<name>' under the same root, and a
\* wipe_export that no other invocation overlaps ends that way.  No step of
\* wipe_export changes the exports file.
WipeExportGuarded ==
    /\ [](\A i \in DOMAIN invocation :
            LET inv == invocation[i]
                p == <<"/">> \o inv.export_name
            IN  (inv.op = "wipe_export" /\ Loaded(inv)) =>
                  /\ p \in DOMAIN inv.loaded
                        => /\ inv.pc = "done"
                           /\ inv.raised = "ExportHasGrantsException"
                           /\ \A e \in Changes : ~Has(inv, e)
                  /\ (/\ p \notin DOMAIN inv.loaded
                      /\ Has(inv, "listdir")
                      /\ inv.export_name \notin inv.listing)
                        => /\ inv.pc = "done"
                           /\ inv.raised = "ExportNotFoundException"
                           /\ \A e \in Changes : ~Has(inv, e))
    /\ [][\A i \in DOMAIN invocation :
            LET inv == invocation[i]
                after == invocation'[i]
                tombstone == <<"T", "R", "A", "S", "H", "-">> \o inv.export_name
            IN  (Acts(i) /\ after.op = "wipe_export") =>
                  /\ exports_file' = exports_file
                  /\ sighups' = sighups
                  /\ after.raised \in {"ExportHasGrantsException",
                                       "ExportNotFoundException"}
                        => root' = root
                  /\ (inv.pc = "rename" /\ inv.export_name \in root)
                        => /\ root' = (root \ {inv.export_name}) \cup {tombstone}
                           /\ after.pc = "done" /\ after.raised = "none"
                  /\ (/\ after.pc = "done" /\ ~after.overlapped /\ Loaded(after)
                      /\ <<"/">> \o inv.export_name \notin DOMAIN after.loaded
                      /\ inv.export_name \in after.listing)
                        => /\ after.raised = "none"
                           /\ inv.export_name \in root
                           /\ root' = (root \ {inv.export_name}) \cup {tombstone}]_vars

WipeExportGuardedWitness ==
    /\ \E i \in DOMAIN invocation :
          /\ invocation[i].op = "revoke_access"
          /\ invocation[i].pc = "done" /\ invocation[i].raised = "none"
    /\ \E i \in DOMAIN invocation :
          /\ invocation[i].op = "wipe_export"
          /\ invocation[i].pc = "done" /\ invocation[i].raised = "none"
          /\ tombstone_of(invocation[i].export_name) \in root
          /\ invocation[i].export_name \notin root
    /\ OtherName \in root

\* C16: when two wipe_export invocations race on one export name and the
\* rename of the loser finds the directory already gone, the loser completes
\* without raising.
WipeRaceTolerated ==
    \A i \in DOMAIN invocation :
        LET inv == invocation[i]
        IN  (/\ inv.op = "wipe_export" /\ inv.pc = "done"
             /\ Has(inv, "rename") /\ ~Has(inv, "fsync_path"))
                => inv.raised = "none"

\* the text {"host": ["rw"]}
HostRwJson ==
    <<"{", "\"", "h", "o", "s", "t", "\"", ":", " ", "[", "\"", "r", "w",
      "\"", "]", "}">>

\* C17: no step of get_export changes the exports file, the root or the
\* signals sent.  With the table loaded, get_export returns the hosts of the
\* export point '/' + export_name, each with the list of its options, when
\* the table has the export point; the empty map when it has not but the
\* listing of the root has export_name; and fails with
\* ExportNotFoundException otherwise.
GetExportProjects ==
    /\ [](\A i \in DOMAIN invocation :
            LET inv == invocation[i]
                p == <<"/">> \o inv.export_name
            IN  (inv.op = "get_export" /\ inv.pc = "done" /\ Loaded(inv)) =>
                  IF p \in DOMAIN inv.loaded
                  THEN LET clients == inv.loaded[p].clients
                       IN  /\ inv.raised = "none"
                           /\ DOMAIN inv.result = DOMAIN clients
                           /\ \A h \in DOMAIN clients :
                                 /\ Range(inv.result[h]) = clients[h]
                                 /\ Len(inv.result[h]) = Cardinality(clients[h])
                           /\ clients = [h \in {HostName} |-> {OptionRw}]
                                 => inv.output = HostRwJson
                  ELSE IF inv.export_name \in inv.listing
                  THEN /\ inv.raised = "none"
                       /\ inv.result = EmptyDict
                       /\ inv.output = <<"{", "}">>
                  ELSE inv.raised = "ExportNotFoundException")
    /\ [][\A i \in DOMAIN invocation :
            (Acts(i) /\ invocation'[i].op = "get_export")
                => UNCHANGED <<exports_file, root, sighups>>]_vars

GetExportProjectsWitness ==
    /\ \E i \in DOMAIN invocation :
          /\ invocation[i].op = "get_export" /\ invocation[i].pc = "done"
          /\ invocation[i].raised = "none"
          /\ invocation[i].output = HostRwJson
          /\ invocation[i].result = [h \in {HostName} |-> <<OptionRw>>]
    /\ \A i \in DOMAIN invocation : invocation[i].pc = "done"
    /\ exports_file \in InitialFiles

\* add_export with a valid name went past verify_environment
Adding(inv) == inv.op = "add_export" /\ Has(inv, "exists")

\* C18: add_export with a valid name creates the directory under the root
\* when it is absent and completes silently, changing nothing, when it is
\* there; an add_export no other invocation overlaps succeeds, and a second
\* one after it for the same name creates nothing; no step of add_export
\* changes the exports file or removes a directory.
AddExportIdempotent ==
    /\ [][\A i \in DOMAIN invocation :
            LET inv == invocation[i]
                after == invocation'[i]
            IN  (Acts(i) /\ after.op = "add_export") =>
                  /\ exports_file' = exports_file
                  /\ sighups' = sighups
                  /\ root \subseteq root'
                  /\ root' \subseteq root \cup {after.export_name}
                  /\ (inv.pc = "exists" /\ inv.export_name \in root)
                        => /\ root' = root
                           /\ after.pc = "done" /\ after.raised = "none"
                  /\ (inv.pc = "mkdir" /\ inv.export_name \notin root)
                        => /\ root' = root \cup {inv.export_name}
                           /\ after.pc = "done" /\ after.raised = "none"
                  /\ (Adding(after) /\ after.pc = "done" /\ ~after.overlapped)
                        => /\ after.raised = "none"
                           /\ after.export_name \in root']_vars
    /\ [](\A i, j \in DOMAIN invocation :
            (/\ i < j
             /\ Adding(invocation[i]) /\ Adding(invocation[j])
             /\ invocation[i].export_name = invocation[j].export_name
             /\ invocation[i].pc = "done" /\ invocation[j].pc = "done"
             /\ ~invocation[i].overlapped /\ ~invocation[j].overlapped
             /\ j = i + 1)
                => /\ invocation[i].raised = "none"
                   /\ invocation[j].raised = "none"
                   /\ ~Has(invocation[j], "mkdir")
                   /\ \/ invocation[j].export_name \in root
                      \/ \E k \in DOMAIN invocation : k > j /\ invocation[k].pc # "idle")

AddExportIdempotentWitness ==
    /\ Adding(invocation[1]) /\ Adding(invocation[2])
    /\ invocation[1].pc = "done" /\ invocation[2].pc = "done"
    /\ ~invocation[2].overlapped
    /\ Has(invocation[1], "mkdir") /\ ~Has(invocation[2], "mkdir")
    /\ invocation[2].raised = "none"
    /\ root = {ExportName}

\* add_export was called with an empty name or a name holding "/"
Misnamed(inv) == inv.op = "add_export" /\ invalid_name(inv.export_name)

\* the events of an invocation that touched the root export
Interactions == {"elevated_privileges", "nfs_mount", "exists", "mkdir", "chmod"}

\* C19: add_export with an empty name or a name that holds "/" never
\* succeeds; wherever verify_environment returns, it ends with
\* ExportException, at the very step that started it; it never elevates
\* privileges, mounts, looks for or creates a directory, and the step that
\* rejects it leaves the root, the exports file and sfused alone. (Where
\* verify_environment raises, its exception comes first, with the same
\* absence of any elevation, mount or directory.)
AddExportInvalidRejected ==
    /\ [](\A i \in DOMAIN invocation :
            LET inv == invocation[i]
            IN  Misnamed(inv) =>
                  /\ inv.pc = "done"
                  /\ inv.raised # "none"
                  /\ \A k \in DOMAIN inv.events : inv.events[k] \notin Interactions
                  /\ (/\ inv.checked # ""
                      /\ verify_environment(environment, inv.checked) = "none")
                        => inv.raised = "ExportException")
    /\ [][\A i \in DOMAIN invocation :
            (Acts(i) /\ Misnamed(invocation'[i]))
                => /\ invocation[i].pc = "idle"
                   /\ root' = root
                   /\ exports_file' = exports_file
                   /\ sighups' = sighups]_vars

AddExportInvalidRejectedWitness ==
    /\ invocation[1].op = "add_export" /\ invocation[1].export_name = EmptyName
    /\ invocation[2].op = "add_export" /\ invocation[2].export_name = NestedName
    /\ invocation[1].raised = "ExportException"
    /\ invocation[2].raised = "ExportException"
    /\ invocation[1].events = <<"verify_environment">>
    /\ root \in InitialRoots

\* C20: whatever an invocation of add_export, wipe_export, grant_access,
\* revoke_access or get_export does, verify_environment is the first thing it
\* did, it looked for the configured exports file and returned; an invocation
\* that ended with EnvironmentException did nothing else.
VerifiedBeforeActing ==
    \A i \in DOMAIN invocation :
        LET inv == invocation[i]
        IN  /\ inv.events # <<>> => inv.events[1] = "verify_environment"
            /\ Len(inv.events) > 1
                  => /\ inv.checked = ExportsFilePath
                     /\ verify_environment(environment, ExportsFilePath) = "none"
            /\ inv.raised = "EnvironmentException"
                  => inv.events = <<"verify_environment">>

\* the error kinds of the specification, by the exception that stands for them
ErrorKinds ==
    {"DeserializationException", "EnvironmentException",
     "ExportNotFoundException", "ClientExistsException",
     "ClientNotFoundException", "ExportHasGrantsException", "ExportException"}

\* C23: two invocations that end with exceptions of different error kinds
\* make the process exit with different codes.
DistinctExitCodes ==
    \A i, j \in DOMAIN invocation :
        (/\ invocation[i].raised \in ErrorKinds
         /\ invocation[j].raised \in ErrorKinds
         /\ invocation[i].raised # invocation[j].raised)
            => exit_code(invocation[i].raised) # exit_code(invocation[j].raised)

\* the words of each line of the text, none for a blank line
Rows(file) ==
    LET lines == readlines(file)
    IN  [k \in DOMAIN lines |->
            IF is_blank(lines[k]) THEN <<>> ELSE split(strip_comment(lines[k]))]

\* the last of the rows for the export point
LastRowFor(rows, export_point) ==
    CHOOSE k \in DOMAIN rows :
        /\ rows[k] # <<>> /\ rows[k][1] = export_point
        /\ \A j \in DOMAIN rows :
              (rows[j] # <<>> /\ rows[j][1] = export_point) => j <= k

\* the hosts of a row, each client cut at its "("
HostsOfRow(row) == {partition_head(row[k], "(") : k \in 2..Len(row)}

\* (export point, host) for the hosts that only an earlier row for the
\* export point has
Shadowed(rows) ==
    UNION {{<<rows[j][1], h>> :
                h \in HostsOfRow(rows[j])
                        \ HostsOfRow(rows[LastRowFor(rows, rows[j][1])])} :
            j \in {j \in DOMAIN rows : rows[j] # <<>>}}

\* (export point, host) for every client of a table
TableClients(t) == {<<g[1], g[2]>> : g \in TableGrants(t)}

\* C30: of two lines for the same export point the table that
\* _get_defined_exports loads has the clients of the last line only, without
\* an exception; the file a grant_access or revoke_access then writes holds
\* no client but those of the table it loaded and the one it granted, so the
\* hosts of the earlier line are gone from the file.
LastLineWins ==
    /\ [][\A i \in DOMAIN invocation :
            (invocation[i].pc = "read" /\ Acts(i))
                => \E rows \in {Rows(exports_file)} :
                     \E shadowed \in {Shadowed(rows)} :
                       shadowed # {}
                         => /\ invocation'[i].raised # "DeserializationException"
                            /\ \A k \in DOMAIN rows :
                                 rows[k] # <<>>
                                   => \E last \in {rows[LastRowFor(rows, rows[k][1])]} :
                                        /\ rows[k][1] \in DOMAIN invocation'[i].loaded
                                        /\ DOMAIN invocation'[i].loaded[rows[k][1]].clients
                                              = HostsOfRow(last)
                                        /\ invocation'[i].loaded[rows[k][1]]
                                              = Export_deserialize(
                                                  join(<<" ">>, last)).value
                            /\ TableClients(invocation'[i].loaded) \cap shadowed = {}]_vars
    /\ [][\A i \in DOMAIN invocation :
            (invocation[i].pc = "safe_write" /\ Acts(i))
                => \E written \in {ExportTable_deserialize(readlines(exports_file'))} :
                       /\ written.raised = "none"
                       /\ TableClients(written.value)
                            \subseteq TableClients(invocation[i].loaded)
                                \cup {<<export_point_of(invocation[i].export_name),
                                        invocation[i].host>>}]_vars

LastLineWinsWitness ==
    /\ \E i \in DOMAIN invocation :
          /\ invocation[i].op = "grant_access" /\ invocation[i].pc = "done"
          /\ invocation[i].raised = "none"
          /\ invocation[i].export_name = OtherName
          /\ ~invocation[i].overlapped
    /\ invocation[2].pc = "idle"
    /\ exports_file \notin DuplicateFiles
    /\ TableClients(ExportTable_deserialize(readlines(exports_file)).value)
          = {<<ShortPoint, HostIp>>, <<export_point_of(OtherName), HostName>>}

\* C29: the file a successful grant_access writes loads again as the table
\* that was handed to _reexport, and no later call fails with
\* DeserializationException on a file that grant_access wrote.
GrantedFileLoads ==
    /\ [][\A i \in DOMAIN invocation :
            (/\ invocation[i].pc = "safe_write" /\ Acts(i)
             /\ invocation[i].op = "grant_access")
                => ExportTable_deserialize(readlines(exports_file'))
                      = Returned(invocation[i].handed)]_vars
    /\ [](\A i \in DOMAIN invocation :
            invocation[i].raised # "DeserializationException")

\* C26: in the body of elevated_privileges the effective uid and gid are 0;
\* whenever a scope is left, by return, by an exception of the body or by
\* os.seteuid(0) or os.setegid(0) raising, the effective uid and gid are the
\* ones the scope was entered with.
PrivilegesScoped ==
    /\ [](\A k \in DOMAIN privileges.scopes :
            privileges.scopes[k].pc = "body"
                => privileges.euid = Superuser /\ privileges.egid = Superuser)
    /\ [][Len(privileges'.scopes) < Len(privileges.scopes)
            => /\ privileges'.euid = Innermost.previous_uid
               /\ privileges'.egid = Innermost.previous_gid]_vars

\* the texts that safe_write has renamed over the exports file
Renamed == {invocation[i].serialized_exports : i \in DOMAIN visible_to}

\* C22: the exports file, and what a process reads from it while any number
\* of safe_write executions are in progress, is always the complete previous
\* content or the complete serialized table of one writer, never empty,
\* truncated or mixed; a write that fails before the rename leaves the file
\* at the target path as it was.
SafeWriteAtomic ==
    /\ [](exports_file \in {PreviousFile} \cup Renamed)
    /\ [](observed = <<"unread">> \/ observed \in {PreviousFile} \cup Renamed)
    /\ [][\A i \in DOMAIN invocation :
            /\ invocation[i].pc \in {"safe_write", "rename"}
            /\ invocation'[i].pc = "done"
            => exports_file' = exports_file]_vars

\* a reader has read the table of one writer while the write of another
\* failed before its rename, its text already in its temporary file
SafeWriteAtomicWitness ==
    \E i \in DOMAIN temporary : \E j \in DOMAIN visible_to :
        /\ invocation[i].pc = "done" /\ invocation[i].raised = "OSError"
        /\ invocation[i].overlapped
        /\ temporary[i] = invocation[i].serialized_exports
        /\ temporary[i] # invocation[j].serialized_exports
        /\ observed = invocation[j].serialized_exports
        /\ observed # PreviousFile
        /\ exports_file = observed

\* the steps of _reexport, in order, up to the drop of the privileges
ReexportOrder(inv) ==
    <<"serialize", "find_pids", "elevated_privileges">> \o TemporarySteps
    \o <<"rename", "fsync_path">> \o [k \in DOMAIN inv.sfused_pids |-> "kill"]

\* an event other than the drop of the privileges
Step(e) == e # "drop_privileges"

\* what the invocation did from the start of _reexport on
Reexported(inv) ==
    LET from == {k \in DOMAIN inv.events : inv.events[k] = "serialize"}
    IN  IF from = {} THEN <<>>
        ELSE SelectSeq(SubSeq(inv.events, Least(from), Len(inv.events)), Step)

\* C24: every execution of _reexport goes through pid discovery and
\* serialization, creation of the temporary file, chmod, write, flush and
\* fsync, rename, fsync of the directory and SIGHUP to each discovered pid in
\* this order; a SIGHUP is only sent by an invocation whose directory fsync
\* has completed and of which no step has failed.
ReexportInOrder ==
    /\ [](\A i \in DOMAIN invocation :
            \E did \in {Reexported(invocation[i])} :
               \E order \in {ReexportOrder(invocation[i])} :
                  /\ Len(did) <= Len(order)
                  /\ did = SubSeq(order, 1, Len(did))
                  /\ invocation[i].pc = "done" /\ invocation[i].raised = "none"
                     /\ did # <<>> => did = order)
    /\ [][sighups' # sighups
            => \E i \in DOMAIN invocation :
                  /\ invocation'[i].events = Append(invocation[i].events, "kill")
                  /\ "fsync_path" \in Range(invocation[i].events)
                  /\ invocation[i].raised = "none"]_vars

\* one invocation has gone through every step and signalled two instances,
\* another has failed in the directory fsync and signalled none
ReexportInOrderWitness ==
    \E i, j \in DOMAIN invocation :
        /\ invocation[i].pc = "done" /\ invocation[i].raised = "none"
        /\ Len(invocation[i].sfused_pids) = 2
        /\ Killed(invocation[i]) = 2
        /\ invocation[j].pc = "done" /\ invocation[j].raised = "OSError"
        /\ j \in DOMAIN visible_to
        /\ Killed(invocation[j]) = 0
        /\ Len(sighups) = 2

\* C21: when an invocation has replaced the exports file and returned, every
\* sfused instance that was running when the new file became visible has
\* been sent SIGHUP since (or has exited); and an invocation that found no
\* instance running returns once the file is replaced and synced.
HangupReachesRunning ==
    /\ [](\A i \in DOMAIN visible_to :
            invocation[i].pc = "done" /\ invocation[i].raised = "none"
                => visible_to[i] = {})
    /\ [][\A i \in DOMAIN invocation :
            /\ invocation[i].pc = "kill"
            /\ invocation[i].sfused_pids = <<>>
            /\ invocation'[i].pc # "kill"
            => invocation'[i].pc = "done" /\ invocation'[i].raised = "none"]_vars

\* C27: when grant_access or revoke_access has raised, and no other
\* invocation has replaced the exports file, the file holds the content it
\* had before the call.
RaisedLeavesFile ==
    \A i \in DOMAIN invocation :
        /\ invocation[i].pc = "done"
        /\ invocation[i].raised # "none"
        /\ \A j \in DOMAIN visible_to : j = i
        => exports_file = PreviousFile

\* C28: from an empty exports file and an empty root, every export point
\* that has a grant in the exports file has a live directory under the
\* root, also when the invocations interleave.
GrantedIsLive ==
    \E rows \in {Rows(exports_file)} :
        \A k \in DOMAIN rows :
            HostsOfRow(rows[k]) # {}
                => \E name \in root : export_point_of(name) = rows[k][1]

\* the invocations of grant_access and revoke_access that have returned
Returning ==
    {i \in DOMAIN invocation :
        /\ invocation[i].pc = "done" /\ invocation[i].raised = "none"
        /\ invocation[i].op \in {"grant_access", "revoke_access"}}

\* the hosts whose last such invocation is a grant_access
LastGranted ==
    {invocation[i].host :
        i \in {i \in Returning :
                 /\ invocation[i].op = "grant_access"
                 /\ \A j \in Returning :
                       invocation[j].host = invocation[i].host => j <= i}}

\* the hosts that have a grant in the rows of the exports file
FileHosts(rows) == UNION {HostsOfRow(rows[k]) : k \in DOMAIN rows}

\* C25: when the invocations of grant_access and revoke_access do not
\* overlap, every change is in the final exports file: its hosts are those
\* whose last invocation that returned is a grant_access.  (That overlapping
\* invocations can lose an update is what the witness reaches.)
SerialKeepsUpdates ==
    (/\ \A i \in DOMAIN invocation :
            ~Running(invocation[i]) /\ ~invocation[i].overlapped
     /\ Returning # {})
        => \E rows \in {Rows(exports_file)} : FileHosts(rows) = LastGranted

\* two overlapping grant_access invocations for different hosts have both
\* returned, and the exports file has the grant of one of them only
SerialKeepsUpdatesWitness ==
    /\ \A i \in DOMAIN invocation : ~Running(invocation[i])
    /\ \A i \in Returning : invocation[i].op = "grant_access"
    /\ Cardinality(LastGranted) = 2
    /\ \E rows \in {Rows(exports_file)} : Cardinality(FileHosts(rows)) = 1

=============================================================================
